---- MODULE Spec2Model ----
(***************************************************************************)
(* A model of the DDoS flow-classification pipeline of                     *)
(* src/model_optimized.py (class OptimizedDDoSAnalysis): schema            *)
(* normalisation, dataset loading, preprocessing, feature selection,       *)
(* model search with ensemble, artifact persistence and inference.         *)
(*                                                                         *)
(* Text (column names, label tokens) is a sequence of one-character        *)
(* strings, so that strip / replace / lower / upper / substring tests are  *)
(* computed character by character as Python computes them.                *)
(***************************************************************************)
EXTENDS Integers, Sequences, FiniteSets, TLC

VARIABLES
    raw_columns,    \* normalisation: df.columns as read from the file
    df_columns,     \* normalisation: df.columns of the frame being renamed
    norm_pc,        \* normalisation: "raw", "normalized" or "renormalized"
    csv_files,              \* loading: self.csv_files, the directory's files in listing order
    max_samples_per_file,   \* loading: self.max_samples_per_file
    unified_data,           \* loading: what load_all_datasets returned
    load_pc,                \* loading: "ready" before, "loaded" after the call
    n_train,            \* training: X_train.shape[0]
    cand_i,             \* training: position of the candidate loop in models
    outcomes,           \* training: what happened to each candidate tried so far
    results,            \* training: the results dict, in insertion order
    best_model,         \* training: the local best_model (a result's name, or "None")
    best_score,         \* training: the local best_score
    best_model_name,    \* training: the local best_model_name
    self_best_model,    \* training: self.best_model ("unset" until line 590)
    train_pc,           \* training: "loop", "done" or "raised"
    disk,           \* store: the three files of one model_name
    saver,          \* store: the fields of the analyzer that trains and saves
    save_pc,        \* store: where save_model_and_scaler stands in its writes
    loader,         \* store: the fields of the analyzer that loads
    loader_before,  \* store: the loader's fields when its current load was called
    load_step,      \* store: where load_model_and_scaler stands in its reads
    load_result,    \* store: what the last finished load returned
    sel_self,       \* selection: the analyzer's fields
    X_train_cols,   \* selection: the feature each column of the training matrix holds
    X_test_cols,    \* selection: the feature each column of the test matrix holds
    sel_method,     \* selection: the method argument of the call
    sel_k,          \* selection: the k argument of the call
    saved,          \* selection: what save_model_and_scaler wrote
    sel_pc,         \* selection: "scaled", "selected", "trained" or "saved"
    pred_model,     \* inference: self.best_model
    pred_X,         \* inference: the argument X and the stages its caller ran on it
    invoked_on,     \* inference: the matrix handed to the model's predict
    pred_out,       \* inference: the (predictions, confidences) returned
    pred_pc,        \* inference: "called" or "predicted"
    prep_input,             \* preprocessing: the frame as it was passed in
    prep_df,                \* preprocessing: the caller's frame df (changed in place)
    original_network_data,  \* preprocessing: self.original_network_data
    label_encoders,         \* preprocessing: self.label_encoders
    feature_columns,        \* preprocessing: self.feature_columns
    X_unclipped,            \* preprocessing: the local X just before line 349
    bounds_used,            \* preprocessing: the locals lower_bound, upper_bound
    prep_X_train,           \* preprocessing: the returned training matrix
    prep_X_test,            \* preprocessing: the returned test matrix
    prep_y_train,           \* preprocessing: the returned training labels
    prep_y_test,            \* preprocessing: the returned test labels
    prep_pc,                \* preprocessing: "start", "returned", "returned_none" or "raised"
    label_raw,      \* labels: one cell of a file's label column, as read
    label_std,      \* labels: what each standardization pass so far made of it
    eng_input,      \* engineering: the frame as it was passed in
    eng_df,         \* engineering: the caller's frame df (changed in place)
    eng_pc          \* engineering: "start" or "returned"

vars_norm == <<raw_columns, df_columns, norm_pc>>
vars_load == <<csv_files, max_samples_per_file, unified_data, load_pc>>

vars_train == <<n_train, cand_i, outcomes, results, best_model, best_score,
                best_model_name, self_best_model, train_pc>>

vars_store == <<disk, saver, save_pc, loader, loader_before, load_step, load_result>>

vars_select == <<sel_self, X_train_cols, X_test_cols, sel_method, sel_k, saved, sel_pc>>
vars_predict == <<pred_model, pred_X, invoked_on, pred_out, pred_pc>>

vars_prep == <<prep_input, prep_df, original_network_data, label_encoders,
               feature_columns, X_unclipped, bounds_used,
               prep_X_train, prep_X_test, prep_y_train, prep_y_test, prep_pc>>

vars_label == <<label_raw, label_std>>
vars_eng == <<eng_input, eng_df, eng_pc>>

vars == <<vars_norm, vars_load, vars_train, vars_store, vars_select, vars_predict,
          vars_prep, vars_label, vars_eng>>

(***************************************************************************)
(* Python str helpers                                                      *)
(***************************************************************************)
UpperCase == <<"A","B","C","D","E","F","G","H","I","J","K","L","M",
               "N","O","P","Q","R","S","T","U","V","W","X","Y","Z">>

LowerCase == <<"a","b","c","d","e","f","g","h","i","j","k","l","m",
               "n","o","p","q","r","s","t","u","v","w","x","y","z">>

\* str.lower(): every upper-case letter replaced by its lower-case one
str_lower(s) ==
    [i \in 1..Len(s) |->
        IF \E k \in 1..26 : UpperCase[k] = s[i]
        THEN LowerCase[CHOOSE k \in 1..26 : UpperCase[k] = s[i]]
        ELSE s[i]]

\* str.upper(): every lower-case letter replaced by its upper-case one
str_upper(s) ==
    [i \in 1..Len(s) |->
        IF \E k \in 1..26 : LowerCase[k] = s[i]
        THEN UpperCase[CHOOSE k \in 1..26 : LowerCase[k] = s[i]]
        ELSE s[i]]

\* str.replace(' ', '_')
str_replace_space(s) == [i \in 1..Len(s) |-> IF s[i] = " " THEN "_" ELSE s[i]]

\* str.strip(): leading and trailing whitespace removed
str_strip(s) ==
    LET keep == {i \in 1..Len(s) : s[i] \notin {" ", "\t"}}
    IN  IF keep = {} THEN <<>>
        ELSE LET lo == CHOOSE i \in keep : \A j \in keep : i <= j
                 hi == CHOOSE i \in keep : \A j \in keep : j <= i
             IN  SubSeq(s, lo, hi)

\* Python's  sub in s  on strings
str_contains(sub, s) ==
    \E i \in 1..(Len(s) - Len(sub) + 1) : SubSeq(s, i, i + Len(sub) - 1) = sub

\* x in list
InSeq(x, seq) == \E i \in 1..Len(seq) : seq[i] = x

(***************************************************************************)
(* __init__: the static column_mappings table, as (key, value) pairs in    *)
(* the order of the dict literal (a repeated key keeps its last value).    *)
(***************************************************************************)
column_mappings ==
    <<
       <<<<"F","l","o","w"," ","P","a","c","k","e","t","s","/","s">>,
         <<"f","l","o","w","_","p","k","t","s","_","s">>>>,
       <<<<"P","a","c","k","e","t"," ","L","e","n","g","t","h"," ","M","e","a","n">>,
         <<"p","k","t","_","l","e","n","_","m","e","a","n">>>>,
       <<<<"F","l","o","w"," ","I","A","T"," ","M","e","a","n">>,
         <<"f","l","o","w","_","i","a","t","_","m","e","a","n">>>>,
       <<<<"S","Y","N"," ","F","l","a","g"," ","C","o","u","n","t">>,
         <<"s","y","n","_","f","l","a","g","_","c","n","t">>>>,
       <<<<"A","C","K"," ","F","l","a","g"," ","C","o","u","n","t">>,
         <<"a","c","k","_","f","l","a","g","_","c","n","t">>>>,
       <<<<"R","S","T"," ","F","l","a","g"," ","C","o","u","n","t">>,
         <<"r","s","t","_","f","l","a","g","_","c","n","t">>>>,
       <<<<"F","I","N"," ","F","l","a","g"," ","C","o","u","n","t">>,
         <<"f","i","n","_","f","l","a","g","_","c","n","t">>>>,
       <<<<"F","l","o","w"," ","D","u","r","a","t","i","o","n">>,
         <<"f","l","o","w","_","d","u","r","a","t","i","o","n">>>>,
       <<<<"F","l","o","w"," ","B","y","t","e","s","/","s">>,
         <<"f","l","o","w","_","b","y","t","s","_","s">>>>,
       <<<<"D","o","w","n","/","U","p"," ","R","a","t","i","o">>,
         <<"d","o","w","n","_","u","p","_","r","a","t","i","o">>>>,
       <<<<"F","w","d"," ","P","a","c","k","e","t","s","/","s">>,
         <<"f","w","d","_","p","k","t","s","_","s">>>>,
       <<<<"B","w","d"," ","P","a","c","k","e","t","s","/","s">>,
         <<"b","w","d","_","p","k","t","s","_","s">>>>,
       <<<<"F","l","o","w"," ","I","A","T"," ","S","t","d">>,
         <<"f","l","o","w","_","i","a","t","_","s","t","d">>>>,
       <<<<"S","o","u","r","c","e"," ","I","P">>,
         <<"s","r","c","_","i","p">>>>,
       <<<<"P","r","o","t","o","c","o","l">>,
         <<"p","r","o","t","o","c","o","l">>>>,
       <<<<"L","a","b","e","l">>,
         <<"l","a","b","e","l">>>>,
       <<<<"T","i","m","e","s","t","a","m","p">>,
         <<"t","i","m","e","s","t","a","m","p">>>>,
       <<<<"T","o","t","a","l"," ","F","w","d"," ","P","a","c","k","e","t","s">>,
         <<"t","o","t","_","f","w","d","_","p","k","t","s">>>>,
       <<<<"T","o","t","a","l"," ","B","a","c","k","w","a","r","d"," ","P","a","c","k","e","t","s">>,
         <<"t","o","t","_","b","w","d","_","p","k","t","s">>>>,
       <<<<"T","o","t","a","l"," ","L","e","n","g","t","h"," ","o","f"," ","F","w","d"," ","P","a","c","k","e","t","s">>,
         <<"t","o","t","l","e","n","_","f","w","d","_","p","k","t","s">>>>,
       <<<<"T","o","t","a","l"," ","L","e","n","g","t","h"," ","o","f"," ","B","w","d"," ","P","a","c","k","e","t","s">>,
         <<"t","o","t","l","e","n","_","b","w","d","_","p","k","t","s">>>>,
       <<<<"F","w","d"," ","P","a","c","k","e","t"," ","L","e","n","g","t","h"," ","M","a","x">>,
         <<"f","w","d","_","p","k","t","_","l","e","n","_","m","a","x">>>>,
       <<<<"F","w","d"," ","P","a","c","k","e","t"," ","L","e","n","g","t","h"," ","M","i","n">>,
         <<"f","w","d","_","p","k","t","_","l","e","n","_","m","i","n">>>>,
       <<<<"F","w","d"," ","P","a","c","k","e","t"," ","L","e","n","g","t","h"," ","M","e","a","n">>,
         <<"f","w","d","_","p","k","t","_","l","e","n","_","m","e","a","n">>>>,
       <<<<"F","w","d"," ","P","a","c","k","e","t"," ","L","e","n","g","t","h"," ","S","t","d">>,
         <<"f","w","d","_","p","k","t","_","l","e","n","_","s","t","d">>>>,
       <<<<"B","w","d"," ","P","a","c","k","e","t"," ","L","e","n","g","t","h"," ","M","a","x">>,
         <<"b","w","d","_","p","k","t","_","l","e","n","_","m","a","x">>>>,
       <<<<"B","w","d"," ","P","a","c","k","e","t"," ","L","e","n","g","t","h"," ","M","i","n">>,
         <<"b","w","d","_","p","k","t","_","l","e","n","_","m","i","n">>>>,
       <<<<"B","w","d"," ","P","a","c","k","e","t"," ","L","e","n","g","t","h"," ","M","e","a","n">>,
         <<"b","w","d","_","p","k","t","_","l","e","n","_","m","e","a","n">>>>,
       <<<<"B","w","d"," ","P","a","c","k","e","t"," ","L","e","n","g","t","h"," ","S","t","d">>,
         <<"b","w","d","_","p","k","t","_","l","e","n","_","s","t","d">>>>,
       <<<<"P","a","c","k","e","t"," ","L","e","n","g","t","h"," ","M","a","x">>,
         <<"p","k","t","_","l","e","n","_","m","a","x">>>>,
       <<<<"P","a","c","k","e","t"," ","L","e","n","g","t","h"," ","M","i","n">>,
         <<"p","k","t","_","l","e","n","_","m","i","n">>>>,
       <<<<"P","a","c","k","e","t"," ","L","e","n","g","t","h"," ","S","t","d">>,
         <<"p","k","t","_","l","e","n","_","s","t","d">>>>,
       <<<<"P","a","c","k","e","t"," ","L","e","n","g","t","h"," ","V","a","r","i","a","n","c","e">>,
         <<"p","k","t","_","l","e","n","_","v","a","r">>>>,
       <<<<"P","S","H"," ","F","l","a","g"," ","C","o","u","n","t">>,
         <<"p","s","h","_","f","l","a","g","_","c","n","t">>>>,
       <<<<"U","R","G"," ","F","l","a","g"," ","C","o","u","n","t">>,
         <<"u","r","g","_","f","l","a","g","_","c","n","t">>>>,
       <<<<"C","W","E"," ","F","l","a","g"," ","C","o","u","n","t">>,
         <<"c","w","r","_","f","l","a","g","_","c","o","u","n","t">>>>,
       <<<<"E","C","E"," ","F","l","a","g"," ","C","o","u","n","t">>,
         <<"e","c","e","_","f","l","a","g","_","c","n","t">>>>,
       <<<<"I","n","i","t","_","W","i","n","_","b","y","t","e","s","_","f","o","r","w","a","r","d">>,
         <<"i","n","i","t","_","f","w","d","_","w","i","n","_","b","y","t","s">>>>,
       <<<<"I","n","i","t","_","W","i","n","_","b","y","t","e","s","_","b","a","c","k","w","a","r","d">>,
         <<"i","n","i","t","_","b","w","d","_","w","i","n","_","b","y","t","s">>>>,
       <<<<"a","c","t","_","d","a","t","a","_","p","k","t","_","f","w","d">>,
         <<"f","w","d","_","a","c","t","_","d","a","t","a","_","p","k","t","s">>>>,
       <<<<"m","i","n","_","s","e","g","_","s","i","z","e","_","f","o","r","w","a","r","d">>,
         <<"f","w","d","_","s","e","g","_","s","i","z","e","_","m","i","n">>>>,
       <<<<"A","c","t","i","v","e"," ","M","e","a","n">>,
         <<"a","c","t","i","v","e","_","m","e","a","n">>>>,
       <<<<"A","c","t","i","v","e"," ","S","t","d">>,
         <<"a","c","t","i","v","e","_","s","t","d">>>>,
       <<<<"A","c","t","i","v","e"," ","M","a","x">>,
         <<"a","c","t","i","v","e","_","m","a","x">>>>,
       <<<<"A","c","t","i","v","e"," ","M","i","n">>,
         <<"a","c","t","i","v","e","_","m","i","n">>>>,
       <<<<"I","d","l","e"," ","M","e","a","n">>,
         <<"i","d","l","e","_","m","e","a","n">>>>,
       <<<<"I","d","l","e"," ","S","t","d">>,
         <<"i","d","l","e","_","s","t","d">>>>,
       <<<<"I","d","l","e"," ","M","a","x">>,
         <<"i","d","l","e","_","m","a","x">>>>,
       <<<<"I","d","l","e"," ","M","i","n">>,
         <<"i","d","l","e","_","m","i","n">>>>,
       <<<<"s","r","c","_","i","p">>,
         <<"s","r","c","_","i","p">>>>,
       <<<<"d","s","t","_","i","p">>,
         <<"d","s","t","_","i","p">>>>,
       <<<<"s","r","c","_","p","o","r","t">>,
         <<"s","r","c","_","p","o","r","t">>>>,
       <<<<"d","s","t","_","p","o","r","t">>,
         <<"d","s","t","_","p","o","r","t">>>>,
       <<<<"p","r","o","t","o","c","o","l">>,
         <<"p","r","o","t","o","c","o","l">>>>,
       <<<<"t","i","m","e","s","t","a","m","p">>,
         <<"t","i","m","e","s","t","a","m","p">>>>,
       <<<<"f","l","o","w","_","d","u","r","a","t","i","o","n">>,
         <<"f","l","o","w","_","d","u","r","a","t","i","o","n">>>>,
       <<<<"f","l","o","w","_","b","y","t","s","_","s">>,
         <<"f","l","o","w","_","b","y","t","s","_","s">>>>,
       <<<<"f","l","o","w","_","p","k","t","s","_","s">>,
         <<"f","l","o","w","_","p","k","t","s","_","s">>>>,
       <<<<"f","w","d","_","p","k","t","s","_","s">>,
         <<"f","w","d","_","p","k","t","s","_","s">>>>,
       <<<<"b","w","d","_","p","k","t","s","_","s">>,
         <<"b","w","d","_","p","k","t","s","_","s">>>>,
       <<<<"p","k","t","_","l","e","n","_","m","e","a","n">>,
         <<"p","k","t","_","l","e","n","_","m","e","a","n">>>>,
       <<<<"f","l","o","w","_","i","a","t","_","m","e","a","n">>,
         <<"f","l","o","w","_","i","a","t","_","m","e","a","n">>>>,
       <<<<"f","l","o","w","_","i","a","t","_","s","t","d">>,
         <<"f","l","o","w","_","i","a","t","_","s","t","d">>>>,
       <<<<"f","i","n","_","f","l","a","g","_","c","n","t">>,
         <<"f","i","n","_","f","l","a","g","_","c","n","t">>>>,
       <<<<"s","y","n","_","f","l","a","g","_","c","n","t">>,
         <<"s","y","n","_","f","l","a","g","_","c","n","t">>>>,
       <<<<"r","s","t","_","f","l","a","g","_","c","n","t">>,
         <<"r","s","t","_","f","l","a","g","_","c","n","t">>>>,
       <<<<"a","c","k","_","f","l","a","g","_","c","n","t">>,
         <<"a","c","k","_","f","l","a","g","_","c","n","t">>>>,
       <<<<"d","o","w","n","_","u","p","_","r","a","t","i","o">>,
         <<"d","o","w","n","_","u","p","_","r","a","t","i","o">>>>,
       <<<<"l","a","b","e","l">>,
         <<"l","a","b","e","l">>>>
    >>

column_mappings_keys == {column_mappings[i][1] : i \in 1..Len(column_mappings)}

\* self.column_mappings[col]
column_mappings_get(col) ==
    column_mappings[CHOOSE i \in 1..Len(column_mappings) : column_mappings[i][1] = col][2]

(***************************************************************************)
(* normalize_column_names                                                  *)
(***************************************************************************)
\* the body of  for col in df.columns:  the name  col  is renamed to
rename_target(col) ==
    IF col \in column_mappings_keys THEN column_mappings_get(col)
    ELSE IF str_contains(<<"s","o","u","r","c","e">>, col) /\ str_contains(<<"i","p">>, col)
         THEN <<"s","r","c","_","i","p">>
    ELSE IF str_contains(<<"d","e","s","t","i","n","a","t","i","o","n">>, col)
            /\ str_contains(<<"i","p">>, col)
         THEN <<"d","s","t","_","i","p">>
    ELSE IF str_contains(<<"s","o","u","r","c","e">>, col) /\ str_contains(<<"p","o","r","t">>, col)
         THEN <<"s","r","c","_","p","o","r","t">>
    ELSE IF str_contains(<<"d","e","s","t","i","n","a","t","i","o","n">>, col)
            /\ str_contains(<<"p","o","r","t">>, col)
         THEN <<"d","s","t","_","p","o","r","t">>
    ELSE IF col \in {<<"c","l","a","s","s">>, <<"a","t","t","a","c","k">>, <<"t","y","p","e">>}
         THEN <<"l","a","b","e","l">>
    ELSE col

\* normalize_column_names with line 117 lacking its .str.lower()
normalize_column_names_unlowered(columns) ==
    [i \in 1..Len(columns) |-> rename_target(str_replace_space(str_strip(columns[i])))]

\* the columns of the frame  normalize_column_names(df)  returns: line 117,
\* df.columns.str.strip().str.replace(' ', '_').str.lower(), then the loop
normalize_column_names(columns) ==
    [i \in 1..Len(columns) |->
        rename_target(str_lower(str_replace_space(str_strip(columns[i]))))]

(***************************************************************************)
(* Normalisation scenario: a frame whose header row is drawn from the      *)
(* table's raw headers, its canonical names and a few other headers seen   *)
(* in flow exports.                                                        *)
(***************************************************************************)
MaxCols == 1

HeaderPool ==
    column_mappings_keys \cup {column_mappings[i][2] : i \in 1..Len(column_mappings)} \cup
    { <<" ","F","l","o","w"," ","P","a","c","k","e","t","s","/","s"," ">>,
      <<"D","e","s","t","i","n","a","t","i","o","n"," ","I","P">>,
      <<"S","o","u","r","c","e"," ","P","o","r","t">>,
      <<"D","e","s","t","i","n","a","t","i","o","n"," ","P","o","r","t">>,
      <<"D","s","t"," ","P","o","r","t">>,
      <<"i","p","_","s","o","u","r","c","e">>,
      <<"c","l","a","s","s">>,
      <<"C","l","a","s","s">>,
      <<"a","t","t","a","c","k">>,
      <<"t","y","p","e">>,
      <<"t","a","r","g","e","t">>,
      <<"f","o","o"," ","b","a","r">>,
      <<"U","n","n","a","m","e","d",":"," ","0">> }

RECURSIVE SeqsUpTo(_, _)
\* the sequences over S of length 0..n
SeqsUpTo(S, n) ==
    IF n = 0 THEN {<<>>}
    ELSE LET shorter == SeqsUpTo(S, n - 1)
         IN  shorter \cup {Append(s, x) : s \in {q \in shorter : Len(q) = n - 1}, x \in S}

InitNorm ==
    /\ raw_columns \in {s \in SeqsUpTo(HeaderPool, MaxCols) : Len(s) >= 1}
    /\ df_columns = raw_columns
    /\ norm_pc = "raw"

\* normalize_column_names(df) on the frame as read, and once more on the
\* frame that call returned
NormalizeColumnNames ==
    /\ norm_pc \in {"raw", "normalized"}
    /\ df_columns' = normalize_column_names(df_columns)
    /\ norm_pc' = IF norm_pc = "raw" THEN "normalized" ELSE "renormalized"
    /\ UNCHANGED <<raw_columns,
                 vars_load, vars_train, vars_store, vars_select, vars_predict, vars_prep,
                 vars_label, vars_eng>>

(***************************************************************************)
(* load_all_datasets                                                       *)
(*                                                                         *)
(* A source file is  [name, parses, columns, rows] :  parses  is whether   *)
(* pd.read_csv returns a frame,  columns  its header row and  rows  one    *)
(* token per data row (the text every cell of that row holds).  A frame    *)
(* is  [columns, rows]  with rows  [source_file, label, row] :  row  is    *)
(* the row's position in its file and stands for its other cells.          *)
(***************************************************************************)
target_column == <<"l","a","b","e","l">>

\* line 205: the alternative label names tried when  target_column  is absent
label_alternatives ==
    << <<"L","a","b","e","l">>, <<"l","a","b","e","l">>, <<"L","A","B","E","L">>,
       <<"t","a","r","g","e","t">>, <<"T","a","r","g","e","t">>,
       <<"c","l","a","s","s">>, <<"C","l","a","s","s">>,
       <<"a","t","t","a","c","k">>, <<"A","t","t","a","c","k">>  >>

\* the characters of the model's text in code-point order
CodePoints ==
    <<"\t", " ", ".", "/", "0","1","2","3","4","5","6","7","8","9", ":",
      "A","B","C","D","E","F","G","H","I","J","K","L","M",
      "N","O","P","Q","R","S","T","U","V","W","X","Y","Z", "_",
      "a","b","c","d","e","f","g","h","i","j","k","l","m",
      "n","o","p","q","r","s","t","u","v","w","x","y","z">>

\* Python's  a < b  on strings
str_less(a, b) ==
    LET ord(c) == CHOOSE k \in 1..Len(CodePoints) : CodePoints[k] = c
    IN
    \E i \in 1..Len(b) :
        /\ \A j \in 1..(i - 1) : j <= Len(a) /\ a[j] = b[j]
        /\ \/ i = Len(a) + 1 /\ i - 1 <= Len(a)
           \/ i <= Len(a) /\ ord(a[i]) < ord(b[i])

RECURSIVE str_remove(_, _)
\* s.replace(sub, ''): every occurrence of  sub, left to right, removed
str_remove(s, sub) ==
    IF Len(s) < Len(sub) \/ Len(s) = 0 THEN s
    ELSE IF SubSeq(s, 1, Len(sub)) = sub
         THEN str_remove(SubSeq(s, Len(sub) + 1, Len(s)), sub)
         ELSE <<s[1]>> \o str_remove(Tail(s), sub)

\* lines 203-212: the columns after the label column was looked for;
\* found = FALSE is the for-else branch (the file is skipped)
resolve_label(columns) ==
    IF InSeq(target_column, columns) THEN [found |-> TRUE, columns |-> columns]
    ELSE LET hits == {i \in 1..Len(label_alternatives) : InSeq(label_alternatives[i], columns)}
         IN  IF hits = {} THEN [found |-> FALSE, columns |-> columns]
             ELSE LET alt == label_alternatives[CHOOSE i \in hits : \A j \in hits : i <= j]
                  IN  [found |-> TRUE,
                       columns |-> [i \in 1..Len(columns) |->
                                       IF columns[i] = alt THEN target_column ELSE columns[i]]]

\* line 215: .astype(str).str.strip().str.upper() on one label cell
clean_label(token) == str_upper(str_strip(token))

\* the sequences of  k  distinct elements of the set  S
Arrangements(S, k) ==
    {q \in [1..k -> S] : \A i, j \in 1..k : i # j => q[i] # q[j]}

Min(a, b) == IF a < b THEN a ELSE b

RECURSIVE Flatten(_)
Flatten(seqs) == IF seqs = <<>> THEN <<>> ELSE Head(seqs) \o Flatten(Tail(seqs))

RECURSIVE SortedLabels(_)
\* the labels of a set in the order groupby puts its groups (sorted keys)
SortedLabels(S) ==
    IF S = {} THEN <<>>
    ELSE LET m == CHOOSE x \in S : \A y \in S : y = x \/ str_less(x, y)
         IN  <<m>> \o SortedLabels(S \ {m})

\* lines 219-225: the row orders balanced sampling can return.  x.sample
\* draws with a seeded generator: which rows it returns, and in which order,
\* is left open here (any  k  distinct rows of the class).
balanced_samples(rows, cap) ==
    LET labels == {rows[i].label : i \in 1..Len(rows)}
        keys == SortedLabels(labels)
        samples_per_class == cap \div Cardinality(labels)
        group(l) == {i \in 1..Len(rows) : rows[i].label = l}
        picks == {p \in [1..Len(keys) ->
                           UNION {Arrangements(group(l), Min(Cardinality(group(l)), samples_per_class))
                                  : l \in labels}] :
                     \A g \in 1..Len(keys) :
                        p[g] \in Arrangements(group(keys[g]),
                                     Min(Cardinality(group(keys[g])), samples_per_class))}
    IN  {[i \in 1..Len(Flatten(p)) |-> rows[Flatten(p)[i]]] : p \in picks}

\* lines 196-233, one file: the frames the loop body can append for it;
\* the empty set is a skipped file (continue, or a caught exception)
load_file(file, cap) ==
    IF ~file.parses THEN {}                               \* read_csv raised
    ELSE LET resolved == resolve_label(normalize_column_names(file.columns))
             n_label == Cardinality({i \in 1..Len(resolved.columns) :
                                        resolved.columns[i] = target_column})
             rows == [i \in 1..Len(file.rows) |->
                         [source_file |-> str_remove(file.name, <<".","c","s","v">>),
                          label |-> clean_label(file.rows[i]),
                          row |-> i]]
             columns == IF InSeq(<<"s","o","u","r","c","e","_","f","i","l","e">>, resolved.columns)
                        THEN resolved.columns
                        ELSE Append(resolved.columns, <<"s","o","u","r","c","e","_","f","i","l","e">>)
         IN  IF ~resolved.found THEN {}                   \* no label column: continue
             ELSE IF n_label > 1 THEN {}                  \* df[target_column] is a frame: .str raises
             ELSE IF Len(rows) > cap
                  THEN {[columns |-> columns, rows |-> r] : r \in balanced_samples(rows, cap)}
                  ELSE {[columns |-> columns, rows |-> rows]}

RECURSIVE union_columns(_)
\* pd.concat: the columns of the frames in order of first appearance
union_columns(frames) ==
    IF frames = <<>> THEN <<>>
    ELSE LET rest == union_columns(SubSeq(frames, 1, Len(frames) - 1))
             last == frames[Len(frames)].columns
         IN  rest \o SelectSeq(last, LAMBDA c : ~InSeq(c, rest))

\* lines 235-245: None, or the concatenation of the appended frames
combine(all_dataframes) ==
    IF all_dataframes = <<>>
    THEN [is_none |-> TRUE, columns |-> <<>>, rows |-> <<>>]
    ELSE [is_none |-> FALSE,
          columns |-> union_columns(all_dataframes),
          rows |-> Flatten([i \in 1..Len(all_dataframes) |-> all_dataframes[i].rows])]

RECURSIVE load_outcomes_abort(_, _)
\* load_outcomes with the loop left at the first skipped file
load_outcomes_abort(files, cap) ==
    IF files = <<>> THEN {<<>>}
    ELSE LET frames == load_file(Head(files), cap)
         IN  IF frames = {} THEN {<<>>}
             ELSE {<<f>> \o rest : f \in frames, rest \in load_outcomes_abort(Tail(files), cap)}

RECURSIVE load_outcomes(_, _)
\* the lists  all_dataframes  the loop over  files  can build
load_outcomes(files, cap) ==
    IF files = <<>> THEN {<<>>}
    ELSE LET before == load_outcomes(SubSeq(files, 1, Len(files) - 1), cap)
             frames == load_file(files[Len(files)], cap)
         IN  IF frames = {} THEN before
             ELSE {Append(b, f) : b \in before, f \in frames}

(***************************************************************************)
(* Loading scenario: a directory of up to MaxFiles files.                  *)
(***************************************************************************)
MaxFiles == 2
MaxRowsPerFile == 2

FileNames == << <<"a",".","c","s","v">>, <<"b",".","c","s","v">>,
                <<"c",".","c","s","v">>, <<"d",".","c","s","v">> >>

RECURSIVE NonDecreasing(_, _, _)
\* the non-decreasing sequences of length  m  over  lo..hi: the rows of a
\* file or frame listed kind by kind
NonDecreasing(m, lo, hi) ==
    IF m = 0 THEN {<<>>}
    ELSE UNION {{<<k>> \o rest : rest \in NonDecreasing(m - 1, k, hi)} : k \in lo..hi}

\* what a file can hold.  An unreadable file has no content to speak of.
\* A readable one has a header row with the label column under one of its
\* names and rows of either label, or a header row the loop rejects (no
\* label column, or two columns that both normalise to the label) and
\* one row, which is never looked at
FileContents ==
    LET Labelled ==
            { << <<" ","L","a","b","e","l">> >>,
              << <<"T","a","r","g","e","t">>, <<"F","l","o","w"," ","P","a","c","k","e","t","s","/","s">> >> }
        Rejected ==
            { << <<"f","l","o","w","_","p","k","t","s","_","s">> >>,
              << <<"c","l","a","s","s">>, <<"a","t","t","a","c","k">> >> }
        RowTokens == << <<"n","o","r","m","a","l">>, <<" ","D","D","o","S">> >>
        rows(kinds) == [i \in 1..Len(kinds) |-> RowTokens[kinds[i]]]
    IN  {[parses |-> FALSE, columns |-> <<>>, rows |-> <<>>]}
        \cup {[parses |-> TRUE, columns |-> h, rows |-> rows(kinds)] :
                 h \in Labelled,
                 kinds \in UNION {NonDecreasing(m, 1, 2) : m \in 0..MaxRowsPerFile}}
        \cup {[parses |-> TRUE, columns |-> h, rows |-> rows(<<1>>)] : h \in Rejected}

InitLoad ==
    /\ \E n \in 1..MaxFiles : \E contents \in [1..n -> FileContents] :
          csv_files = [i \in 1..n |->
                         [name |-> FileNames[i], parses |-> contents[i].parses,
                          columns |-> contents[i].columns, rows |-> contents[i].rows]]
    /\ max_samples_per_file \in {1, MaxRowsPerFile}
    /\ unified_data = [is_none |-> TRUE, columns |-> <<>>, rows |-> <<>>]
    /\ load_pc = "ready"

LoadAllDatasets ==
    /\ load_pc = "ready"
    /\ \E all_dataframes \in load_outcomes(csv_files, max_samples_per_file) :
          unified_data' = combine(all_dataframes)
    /\ load_pc' = "loaded"
    /\ UNCHANGED <<csv_files, max_samples_per_file,
                 vars_norm, vars_train, vars_store, vars_select, vars_predict, vars_prep,
                 vars_label, vars_eng>>

(***************************************************************************)
(* train_best_model                                                        *)
(*                                                                         *)
(* A learner is a black box: its grid search, fit and held-out evaluation  *)
(* either raise or yield a weighted F1.  F1 is counted in steps of         *)
(* 1/MaxF1, so 0 is F1 = 0.0 and MaxF1 is F1 = 1.0.  An estimator is       *)
(* identified by the name of the result that holds it.                     *)
(***************************************************************************)
MaxF1 == 2

nn_min_rows == 10000
svm_max_rows == 50000

\* lines 430-504: the keys of the models dict, in insertion order
models(rows) ==
    <<"Optimized Random Forest", "XGBoost", "Gradient Boosting", "Extra Trees">>
    \o (IF rows > nn_min_rows THEN <<"Neural Network">> ELSE <<>>)
    \o (IF rows < svm_max_rows THEN <<"Optimized SVM">> ELSE <<>>)

\* what one candidate's try block can do: raise before line 539, or reach
\* it with a held-out weighted F1
CandidateOutcomes ==
    {[raised |-> TRUE, f1 |-> 0]} \cup {[raised |-> FALSE, f1 |-> f] : f \in 0..MaxF1}

\* lines 513-554 without the try/except: the exception leaves the function
after_candidate_unguarded(loc, name, out) ==
    IF out.raised
    THEN [loc EXCEPT !.raised = TRUE]
    ELSE LET recorded == [loc EXCEPT !.results = Append(@, [name |-> name, test_f1 |-> out.f1,
                                                            members |-> <<>>])]
         IN  IF out.f1 > loc.best_score
             THEN [recorded EXCEPT !.best_score = out.f1, !.best_model = name,
                                   !.best_model_name = name]
             ELSE recorded

\* lines 513-554, one iteration of the candidate loop on the locals
\* loc = [results, best_model, best_score, best_model_name, raised]
after_candidate(loc, name, out) ==
    IF out.raised
    THEN loc                                  \* except Exception: print
    ELSE LET recorded == [loc EXCEPT !.results = Append(@, [name |-> name, test_f1 |-> out.f1,
                                                            members |-> <<>>])]
         IN  IF out.f1 > loc.best_score
             THEN [recorded EXCEPT !.best_score = out.f1, !.best_model = name,
                                   !.best_model_name = name]
             ELSE recorded

RECURSIVE sorted_by_f1(_)
\* sorted(results.items(), key=test_f1, reverse=True): a stable sort, so
\* results of equal F1 keep their insertion order
sorted_by_f1(rs) ==
    IF rs = <<>> THEN <<>>
    ELSE LET i == CHOOSE i \in 1..Len(rs) :
                     /\ \A j \in 1..Len(rs) : rs[j].test_f1 <= rs[i].test_f1
                     /\ \A j \in 1..(i - 1) : rs[j].test_f1 < rs[i].test_f1
         IN  <<rs[i]>> \o sorted_by_f1(SubSeq(rs, 1, i - 1) \o SubSeq(rs, i + 1, Len(rs)))

\* line 561-563: the names of the estimators the ensemble votes over
top_models(rs) == [i \in 1..3 |-> sorted_by_f1(rs)[i].name]

\* lines 558-588 on the locals, for an ensemble outcome  out
after_ensemble(loc, out) ==
    IF Len(loc.results) >= 3
    THEN IF out.raised
         THEN [loc EXCEPT !.raised = TRUE]    \* not inside any try
         ELSE LET recorded == [loc EXCEPT !.results =
                                   Append(@, [name |-> "Ensemble", test_f1 |-> out.f1,
                                              members |-> top_models(loc.results)])]
              IN  IF out.f1 > loc.best_score
                  THEN [recorded EXCEPT !.best_score = out.f1, !.best_model = "Ensemble",
                                        !.best_model_name = "Ensemble"]
                  ELSE recorded
    ELSE loc

locals == [results |-> results, best_model |-> best_model, best_score |-> best_score,
           best_model_name |-> best_model_name, raised |-> FALSE]

\* lines 421-510: the function entered, before the first candidate
InitTrain ==
    /\ n_train \in {nn_min_rows, nn_min_rows + 1, svm_max_rows - 1, svm_max_rows}
    /\ cand_i = 1
    /\ outcomes = <<>>
    /\ results = <<>>
    /\ best_model = "None"
    /\ best_score = 0
    /\ best_model_name = ""
    /\ self_best_model = "unset"
    /\ train_pc = "loop"

\* one iteration of  for name, setup in models.items()
TrainCandidate ==
    /\ train_pc = "loop"
    /\ cand_i <= Len(models(n_train))
    /\ \E out \in CandidateOutcomes :
          LET loc == after_candidate(locals, models(n_train)[cand_i], out)
          IN  /\ results' = loc.results
              /\ best_model' = loc.best_model
              /\ best_score' = loc.best_score
              /\ best_model_name' = loc.best_model_name
              /\ outcomes' = Append(outcomes, out)
              /\ train_pc' = IF loc.raised THEN "raised" ELSE "loop"
    /\ cand_i' = cand_i + 1
    /\ UNCHANGED <<n_train, self_best_model,
                 vars_norm, vars_load, vars_store, vars_select, vars_predict, vars_prep,
                 vars_label, vars_eng>>

\* lines 558-591: the ensemble, self.best_model and the return
FinishTraining ==
    /\ train_pc = "loop"
    /\ cand_i > Len(models(n_train))
    /\ \E out \in (IF Len(results) >= 3 THEN CandidateOutcomes
                                         ELSE {[raised |-> FALSE, f1 |-> 0]}) :
          LET loc == after_ensemble(locals, out)
          IN  /\ results' = loc.results
              /\ best_model' = loc.best_model
              /\ best_score' = loc.best_score
              /\ best_model_name' = loc.best_model_name
              /\ train_pc' = IF loc.raised THEN "raised" ELSE "done"
              /\ self_best_model' = IF loc.raised THEN self_best_model ELSE loc.best_model
    /\ UNCHANGED <<n_train, cand_i, outcomes,
                 vars_norm, vars_load, vars_store, vars_select, vars_predict, vars_prep,
                 vars_label, vars_eng>>

NextTrain == TrainCandidate \/ FinishTraining

(***************************************************************************)
(* save_model_and_scaler and load_model_and_scaler                         *)
(*                                                                         *)
(* One analyzer trains and saves, another loads, both under the same       *)
(* model_name.  A fitted object is identified by the training run that     *)
(* made it: run 1, 2, ...; 0 is the value __init__ gives the field.  A     *)
(* file is Missing, Partial (joblib.dump has opened it and not finished:   *)
(* it cannot be unpickled) or the pickled value.                           *)
(***************************************************************************)
MaxRuns == 2

Missing == [kind |-> "missing", value |-> 0]
Partial == [kind |-> "partial", value |-> 0]
Pickled(v) == [kind |-> "file", value |-> v]

\* lines 36-43: the fields __init__ sets, as far as save and load use them
new_analyzer ==
    [best_model |-> 0, scaler |-> 0, feature_columns |-> 0, label_encoders |-> 0,
     original_network_data |-> 0, feature_selector |-> 0, pca |-> 0]

\* the fields after training run  v  (the pipeline of __main__), which
\* sets everything but pca
trained_analyzer(v) ==
    [best_model |-> v, scaler |-> v, feature_columns |-> v, label_encoders |-> v,
     original_network_data |-> v, feature_selector |-> v, pca |-> 0]

\* lines 599-606: the metadata dict
metadata_of(self) ==
    [feature_columns |-> self.feature_columns,
     label_encoders |-> self.label_encoders,
     original_network_data |-> self.original_network_data,
     feature_selector |-> self.feature_selector,
     pca |-> self.pca]

\* lines 623-627: the fields taken from a loaded metadata dict
with_metadata(self, metadata) ==
    [self EXCEPT !.feature_columns = metadata.feature_columns,
                 !.label_encoders = metadata.label_encoders,
                 !.original_network_data = metadata.original_network_data,
                 !.feature_selector = metadata.feature_selector,
                 !.pca = metadata.pca]

\* line 620: self.scaler = joblib.load(...), for a readable file
load_scaler(self, file) == [self EXCEPT !.scaler = file.value]

\* line 619: self.best_model = joblib.load(...), for a readable file
load_model(self, file) == [self EXCEPT !.best_model = file.value]

\* nothing saved yet, both analyzers just constructed
InitStore ==
    /\ disk = [u \in {"model", "scaler", "metadata"} |-> Missing]
    /\ saver = new_analyzer
    /\ save_pc = "ready"
    /\ loader = new_analyzer
    /\ loader_before = new_analyzer
    /\ load_step = "ready"
    /\ load_result = "none"

\* __main__, lines 657-675: one more training run of the saving analyzer
Retrain ==
    /\ save_pc = "ready"
    /\ saver.best_model < MaxRuns
    /\ saver' = trained_analyzer(saver.best_model + 1)
    /\ UNCHANGED <<disk, save_pc, loader, loader_before, load_step, load_result,
                 vars_norm, vars_load, vars_train, vars_select, vars_predict, vars_prep,
                 vars_label, vars_eng>>

\* line 595 false: nothing to save, (None, None, None) returned
SaveNothing ==
    /\ save_pc = "ready"
    /\ ~(saver.best_model # 0 /\ saver.scaler # 0)
    /\ UNCHANGED vars

\* line 596: joblib.dump opens <name>.pkl for writing ...
SaveOpenModel ==
    /\ save_pc = "ready"
    /\ saver.best_model # 0 /\ saver.scaler # 0
    /\ disk' = [disk EXCEPT !["model"] = Partial]
    /\ save_pc' = "model_open"
    /\ UNCHANGED <<saver, loader, loader_before, load_step, load_result,
                 vars_norm, vars_load, vars_train, vars_select, vars_predict, vars_prep,
                 vars_label, vars_eng>>

\* ... and completes it
SaveWriteModel ==
    /\ save_pc = "model_open"
    /\ disk' = [disk EXCEPT !["model"] = Pickled(saver.best_model)]
    /\ save_pc' = "model_written"
    /\ UNCHANGED <<saver, loader, loader_before, load_step, load_result,
                 vars_norm, vars_load, vars_train, vars_select, vars_predict, vars_prep,
                 vars_label, vars_eng>>

\* line 597, opening <name>_scaler.pkl
SaveOpenScaler ==
    /\ save_pc = "model_written"
    /\ disk' = [disk EXCEPT !["scaler"] = Partial]
    /\ save_pc' = "scaler_open"
    /\ UNCHANGED <<saver, loader, loader_before, load_step, load_result,
                 vars_norm, vars_load, vars_train, vars_select, vars_predict, vars_prep,
                 vars_label, vars_eng>>

SaveWriteScaler ==
    /\ save_pc = "scaler_open"
    /\ disk' = [disk EXCEPT !["scaler"] = Pickled(saver.scaler)]
    /\ save_pc' = "scaler_written"
    /\ UNCHANGED <<saver, loader, loader_before, load_step, load_result,
                 vars_norm, vars_load, vars_train, vars_select, vars_predict, vars_prep,
                 vars_label, vars_eng>>

\* lines 599-607, opening <name>_metadata.pkl
SaveOpenMetadata ==
    /\ save_pc = "scaler_written"
    /\ disk' = [disk EXCEPT !["metadata"] = Partial]
    /\ save_pc' = "metadata_open"
    /\ UNCHANGED <<saver, loader, loader_before, load_step, load_result,
                 vars_norm, vars_load, vars_train, vars_select, vars_predict, vars_prep,
                 vars_label, vars_eng>>

\* the last write; lines 609-613 return the three paths
SaveWriteMetadata ==
    /\ save_pc = "metadata_open"
    /\ disk' = [disk EXCEPT !["metadata"] = Pickled(metadata_of(saver))]
    /\ save_pc' = "ready"
    /\ UNCHANGED <<saver, loader, loader_before, load_step, load_result,
                 vars_norm, vars_load, vars_train, vars_select, vars_predict, vars_prep,
                 vars_label, vars_eng>>

\* the saving process is stopped between or inside its writes and started
\* again: the files stay as they are, the analyzer keeps what it trained
SaveInterrupted ==
    /\ save_pc \notin {"ready", "idle"}
    /\ save_pc' = "ready"
    /\ UNCHANGED <<disk, saver, loader, loader_before, load_step, load_result,
                 vars_norm, vars_load, vars_train, vars_select, vars_predict, vars_prep,
                 vars_label, vars_eng>>

\* line 619
LoadModel ==
    /\ load_step = "ready"
    /\ loader_before' = loader
    /\ IF disk["model"].kind = "file"
       THEN /\ loader' = load_model(loader, disk["model"])
            /\ load_step' = "model_read"
            /\ load_result' = "none"
       ELSE /\ load_result' = "False"            \* lines 631-633
            /\ UNCHANGED <<loader, load_step>>
    /\ UNCHANGED <<disk, saver, save_pc,
                 vars_norm, vars_load, vars_train, vars_select, vars_predict, vars_prep,
                 vars_label, vars_eng>>

\* line 620
LoadScaler ==
    /\ load_step = "model_read"
    /\ IF disk["scaler"].kind = "file"
       THEN /\ loader' = load_scaler(loader, disk["scaler"])
            /\ load_step' = "scaler_read"
            /\ UNCHANGED load_result
       ELSE /\ load_result' = "False"
            /\ load_step' = "ready"
            /\ UNCHANGED loader
    /\ UNCHANGED <<disk, saver, save_pc, loader_before,
                 vars_norm, vars_load, vars_train, vars_select, vars_predict, vars_prep,
                 vars_label, vars_eng>>

\* lines 621-630
LoadMetadata ==
    /\ load_step = "scaler_read"
    /\ IF disk["metadata"].kind = "file"
       THEN /\ loader' = with_metadata(loader, disk["metadata"].value)
            /\ load_result' = "True"
       ELSE /\ load_result' = "False"
            /\ UNCHANGED loader
    /\ load_step' = "ready"
    /\ UNCHANGED <<disk, saver, save_pc, loader_before,
                 vars_norm, vars_load, vars_train, vars_select, vars_predict, vars_prep,
                 vars_label, vars_eng>>

NextStore ==
    \/ Retrain \/ SaveNothing
    \/ SaveOpenModel \/ SaveWriteModel \/ SaveOpenScaler \/ SaveWriteScaler
    \/ SaveOpenMetadata \/ SaveWriteMetadata \/ SaveInterrupted
    \/ LoadModel \/ LoadScaler \/ LoadMetadata

(***************************************************************************)
(* feature_selection, and what save_model_and_scaler persists of it        *)
(*                                                                         *)
(* The matrices are numpy arrays: a column has no name, so the model       *)
(* keeps, for each matrix, the feature each of its columns holds.  How     *)
(* the selector scores the columns is a black box: any mask with the       *)
(* demanded number of columns can be the fitted one.                       *)
(***************************************************************************)
MaxFeatures == 3

default_k == 50

FeatureNames == <<"flow_duration", "flow_pkts_s", "fwd_bwd_ratio", "total_flags", "is_tcp">>

SelectingMethods == {"mutual_info", "f_classif", "rfe"}

NoSelector == [fitted |-> FALSE, support |-> <<>>]
NoModel == [fitted |-> FALSE, columns |-> <<>>]
NothingSaved == [written |-> FALSE, model |-> NoModel, scaler |-> "",
                 metadata |-> [feature_columns |-> <<>>, label_encoders |-> 0,
                               original_network_data |-> 0,
                               feature_selector |-> NoSelector, pca |-> 0]]

\* selector.transform: the columns of a matrix the mask keeps, in matrix order
apply_support(columns, support) ==
    LET kept == {i \in 1..Len(columns) : i <= Len(support) /\ support[i]}
        nth(n) == CHOOSE i \in kept : Cardinality({j \in kept : j <= i}) = n
    IN  [n \in 1..Cardinality(kept) |-> columns[nth(n)]]

\* feature_selection without line 411: the fitted selector is not kept
feature_selection_unrecorded(self, X_train, X_test, method, k, support) ==
    IF method \in SelectingMethods
    THEN [self |-> self,
          X_train |-> apply_support(X_train, support),
          X_test |-> apply_support(X_test, support)]
    ELSE [self |-> self, X_train |-> X_train, X_test |-> X_test]

\* lines 394-419:  support  is the mask the selector fits, one that keeps
\* min(k, X_train.shape[1]) of the X_train.shape[1] columns
feature_selection(self, X_train, X_test, method, k, support) ==
    IF method \in SelectingMethods
    THEN [self |-> [self EXCEPT !.feature_selector = [fitted |-> TRUE, support |-> support]],
          X_train |-> apply_support(X_train, support),
          X_test |-> apply_support(X_test, support)]
    ELSE [self |-> self, X_train |-> X_train, X_test |-> X_test]    \* line 406

\* __main__ lines 661-665: after preprocess_unified_data and scale_features
\* the matrices hold the columns of self.feature_columns and the scaler is set
InitSelect ==
    /\ \E n \in 1..MaxFeatures :
          /\ sel_self = [best_model |-> NoModel, scaler |-> "RobustScaler",
                         feature_columns |-> SubSeq(FeatureNames, 1, n),
                         label_encoders |-> 0, original_network_data |-> 0,
                         feature_selector |-> NoSelector, pca |-> 0]
          /\ X_train_cols = SubSeq(FeatureNames, 1, n)
          /\ X_test_cols = SubSeq(FeatureNames, 1, n)
    /\ sel_method = ""
    /\ sel_k = 0
    /\ saved = NothingSaved
    /\ sel_pc = "scaled"

FeatureSelection ==
    /\ sel_pc = "scaled"
    /\ \E method \in SelectingMethods \cup {"none"}, k \in (1..MaxFeatures) \cup {default_k} :
       \E support \in {m \in [1..Len(X_train_cols) -> BOOLEAN] :
                           Cardinality({i \in 1..Len(X_train_cols) : m[i]})
                               = Min(k, Len(X_train_cols))} :
          LET r == feature_selection(sel_self, X_train_cols, X_test_cols, method, k, support)
          IN  /\ sel_self' = r.self
              /\ X_train_cols' = r.X_train
              /\ X_test_cols' = r.X_test
              /\ sel_method' = method
              /\ sel_k' = k
    /\ sel_pc' = "selected"
    /\ UNCHANGED <<saved,
                 vars_norm, vars_load, vars_train, vars_store, vars_predict, vars_prep,
                 vars_label, vars_eng>>

\* __main__ line 673 and line 590: the selected model, fit on the matrix
\* feature_selection returned
TrainOnSelected ==
    /\ sel_pc = "selected"
    /\ sel_self' = [sel_self EXCEPT !.best_model = [fitted |-> TRUE, columns |-> X_train_cols]]
    /\ sel_pc' = "trained"
    /\ UNCHANGED <<X_train_cols, X_test_cols, sel_method, sel_k, saved,
                 vars_norm, vars_load, vars_train, vars_store, vars_predict, vars_prep,
                 vars_label, vars_eng>>

\* lines 593-614, all three writes
SaveModelAndScaler ==
    /\ sel_pc = "trained"
    /\ saved' = IF sel_self.best_model.fitted /\ sel_self.scaler # ""
                THEN [written |-> TRUE, model |-> sel_self.best_model,
                      scaler |-> sel_self.scaler, metadata |-> metadata_of(sel_self)]
                ELSE saved
    /\ sel_pc' = "saved"
    /\ UNCHANGED <<sel_self, X_train_cols, X_test_cols, sel_method, sel_k,
                 vars_norm, vars_load, vars_train, vars_store, vars_predict, vars_prep,
                 vars_label, vars_eng>>

NextSelect == FeatureSelection \/ TrainOnSelected \/ SaveModelAndScaler

(***************************************************************************)
(* predict_with_confidence                                                 *)
(*                                                                         *)
(* The model is a black box: a row is given as the class probabilities     *)
(* the model computes for it, in hundredths.  X carries the stages its     *)
(* caller ran on it before the call.                                       *)
(***************************************************************************)
MaxBatch == 2
ProbSteps == 4

ProbScale == 100
default_confidence == 80

\* the chain the training pipeline ran on the rows the model was fit on
Chain == <<"normalize", "engineer", "clean", "scale", "select">>

\* the class probabilities of a two-class model for one row, in steps of
\* 1/ProbSteps
Rows == {<<(ProbScale * i) \div ProbSteps, ProbScale - (ProbScale * i) \div ProbSteps>> :
            i \in 0..ProbSteps}

\* lines 635-646 with np.max taken along axis 0: one maximum per class
predict_with_confidence_axis0(model, X) ==
    LET predict(row) == IF row[1] >= row[2] THEN "BENIGN" ELSE "UDP"
        highest(c) == CHOOSE p \in {X.rows[i][c] : i \in 1..Len(X.rows)} :
                          \A i \in 1..Len(X.rows) : p >= X.rows[i][c]
    IN  [invoked_on |-> X,
         predictions |-> [i \in 1..Len(X.rows) |-> predict(X.rows[i])],
         confidences |-> IF model.predict_proba
                         THEN <<highest(1), highest(2)>>
                         ELSE [i \in 1..Len(X.rows) |-> default_confidence]]

\* lines 635-646: what the call hands to the model and what it returns
predict_with_confidence(model, X) ==
    LET \* best_model.predict for one row: the class of the highest probability
        predict(row) == IF row[1] >= row[2] THEN "BENIGN" ELSE "UDP"
        \* np.max(probabilities, axis=1) for one row
        max_proba(row) == IF row[1] >= row[2] THEN row[1] ELSE row[2]
    IN  [invoked_on |-> X,
         predictions |-> [i \in 1..Len(X.rows) |-> predict(X.rows[i])],
         confidences |-> IF model.predict_proba
                         THEN [i \in 1..Len(X.rows) |-> max_proba(X.rows[i])]
                         ELSE [i \in 1..Len(X.rows) |-> default_confidence]]

\* the call: any fitted model, any batch, prepared by its caller up to any
\* stage of the chain
InitPredict ==
    /\ pred_model \in {[predict_proba |-> b] : b \in BOOLEAN}
    /\ \E n \in 0..Len(Chain), rows \in SeqsUpTo(Rows, MaxBatch) :
          /\ Len(rows) >= 1
          /\ pred_X = [stages |-> SubSeq(Chain, 1, n), rows |-> rows]
    /\ invoked_on = [stages |-> <<>>, rows |-> <<>>]
    /\ pred_out = [predictions |-> <<>>, confidences |-> <<>>]
    /\ pred_pc = "called"

PredictWithConfidence ==
    /\ pred_pc = "called"
    /\ LET r == predict_with_confidence(pred_model, pred_X)
       IN  /\ invoked_on' = r.invoked_on
           /\ pred_out' = [predictions |-> r.predictions, confidences |-> r.confidences]
    /\ pred_pc' = "predicted"
    /\ UNCHANGED <<pred_model, pred_X,
                 vars_norm, vars_load, vars_train, vars_store, vars_select, vars_prep,
                 vars_label, vars_eng>>

(***************************************************************************)
(* Numbers of a frame                                                      *)
(*                                                                         *)
(* A numeric cell is a float: NaN, +Inf, -Inf or a finite value.  Finite   *)
(* values are kept as exact fractions n/d in lowest terms (d > 0): the     *)
(* rounding of float32/float64 is not modelled.                            *)
(***************************************************************************)
RECURSIVE GCD(_, _)
GCD(a, b) == IF b = 0 THEN a ELSE GCD(b, a % b)

\* the number n/d (d > 0) in lowest terms
Frac(n, d) ==
    LET g == GCD(IF n < 0 THEN 0 - n ELSE n, d)
    IN  [k |-> "fin", n |-> n \div g, d |-> d \div g]

Num(n) == [k |-> "fin", n |-> n, d |-> 1]
NaN == [k |-> "nan", n |-> 0, d |-> 1]
PosInf == [k |-> "inf", n |-> 1, d |-> 1]

is_nan(x) == x.k = "nan"
is_inf(x) == x.k = "inf"
is_finite(x) == x.k = "fin"
Sign(x) == IF x.n > 0 THEN 1 ELSE IF x.n < 0 THEN 0 - 1 ELSE 0
\* the infinity of a sign: np.inf for 1, -np.inf for -1
InfOf(sign) == [k |-> "inf", n |-> sign, d |-> 1]

\* IEEE 754 arithmetic and comparison, exact on finite values
f_add(a, b) ==
    IF is_nan(a) \/ is_nan(b) THEN NaN
    ELSE IF is_inf(a) /\ is_inf(b) THEN (IF a.n = b.n THEN a ELSE NaN)
    ELSE IF is_inf(a) THEN a
    ELSE IF is_inf(b) THEN b
    ELSE Frac(a.n * b.d + b.n * a.d, a.d * b.d)

f_sub(a, b) == f_add(a, [b EXCEPT !.n = 0 - b.n])

f_mul(a, b) ==
    IF is_nan(a) \/ is_nan(b) THEN NaN
    ELSE IF is_inf(a) \/ is_inf(b)
         THEN (IF Sign(a) * Sign(b) = 0 THEN NaN ELSE InfOf(Sign(a) * Sign(b)))
    ELSE Frac(a.n * b.n, a.d * b.d)

\* a / b; a zero divisor is +0.0 (the divisors of the pipeline are sums)
f_div(a, b) ==
    IF is_nan(a) \/ is_nan(b) THEN NaN
    ELSE IF is_inf(b) THEN (IF is_inf(a) THEN NaN ELSE Num(0))
    ELSE IF b.n = 0 THEN (IF Sign(a) = 0 THEN NaN ELSE InfOf(Sign(a)))
    ELSE IF is_inf(a) THEN InfOf(Sign(a) * Sign(b))
    ELSE Frac(a.n * b.d * Sign(b), a.d * b.n * Sign(b))

f_lt(a, b) ==
    IF is_nan(a) \/ is_nan(b) THEN FALSE
    ELSE IF is_inf(a) THEN a.n < 0 /\ ~(is_inf(b) /\ b.n < 0)
    ELSE IF is_inf(b) THEN b.n > 0
    ELSE a.n * b.d < b.n * a.d

f_le(a, b) == ~is_nan(a) /\ ~is_nan(b) /\ ~f_lt(b, a)

f_eq(a, b) == ~is_nan(a) /\ ~is_nan(b) /\ a = b

RECURSIVE f_sorted(_)
\* the values of a sequence without NaN, in ascending order
f_sorted(xs) ==
    IF xs = <<>> THEN <<>>
    ELSE LET i == CHOOSE i \in 1..Len(xs) : \A j \in 1..Len(xs) : f_le(xs[i], xs[j])
         IN  <<xs[i]>> \o f_sorted(SubSeq(xs, 1, i - 1) \o SubSeq(xs, i + 1, Len(xs)))

\* Series.median(): NaN skipped; NaN for a column without any value
median(xs) ==
    LET v == f_sorted(SelectSeq(xs, LAMBDA x : ~is_nan(x)))
        n == Len(v)
    IN  IF n = 0 THEN NaN
        ELSE IF n % 2 = 1 THEN v[(n + 1) \div 2]
        ELSE f_div(f_add(v[n \div 2], v[n \div 2 + 1]), Num(2))

\* Series.quantile(q) for q = num/4, linear interpolation, NaN skipped
quantile(xs, num) ==
    LET v == f_sorted(SelectSeq(xs, LAMBDA x : ~is_nan(x)))
        n == Len(v)
        lo == ((n - 1) * num) \div 4
        part == ((n - 1) * num) % 4
    IN  IF n = 0 THEN NaN
        ELSE IF part = 0 THEN v[lo + 1]
        ELSE f_add(v[lo + 1], f_mul(Frac(part, 4), f_sub(v[lo + 2], v[lo + 1])))

\* Series.std() == 0  (ddof = 1, NaN skipped): at least two values, all
\* finite and equal
std_is_zero(xs) ==
    LET v == SelectSeq(xs, LAMBDA x : ~is_nan(x))
    IN  /\ Len(v) >= 2
        /\ \A i \in 1..Len(v) : is_finite(v[i]) /\ v[i] = v[1]

\* Series.fillna(value): a NaN fill value fills nothing
fillna(xs, value) == [i \in 1..Len(xs) |-> IF is_nan(xs[i]) THEN value ELSE xs[i]]

\* Series.replace([np.inf, -np.inf], np.nan)
replace_inf(xs) == [i \in 1..Len(xs) |-> IF is_inf(xs[i]) THEN NaN ELSE xs[i]]

\* lines 349-353 for one column: [lower, upper]
clip_bounds(xs) ==
    LET Q1 == quantile(xs, 1)
        Q3 == quantile(xs, 3)
        IQR == f_sub(Q3, Q1)
    IN  [lower |-> f_sub(Q1, f_mul(Num(3), IQR)),
         upper |-> f_add(Q3, f_mul(Num(3), IQR))]

\* Series.clip(lower, upper): a NaN bound does not clip, NaN stays NaN
clip(xs, bounds) ==
    [i \in 1..Len(xs) |->
        IF f_lt(xs[i], bounds.lower) THEN bounds.lower
        ELSE IF f_lt(bounds.upper, xs[i]) THEN bounds.upper
        ELSE xs[i]]

(***************************************************************************)
(* Preprocessing: create_engineered_features (lines 139-182) and           *)
(* preprocess_unified_data (lines 247-372).  A frame is the sequence of    *)
(* its columns, each [name, dtype, values]; the cells of an "object"       *)
(* column are text, those of a "number" column are numbers.  Numbers are   *)
(* exact: the rounding of astype(np.float32) is not modelled.              *)
(***************************************************************************)

\* the column names the two methods spell out
names ==
    [src_ip |-> <<"s","r","c","_","i","p">>,
     dst_ip |-> <<"d","s","t","_","i","p">>,
     protocol |-> <<"p","r","o","t","o","c","o","l">>,
     src_port |-> <<"s","r","c","_","p","o","r","t">>,
     dst_port |-> <<"d","s","t","_","p","o","r","t">>,
     tot_fwd_pkts |-> <<"t","o","t","_","f","w","d","_","p","k","t","s">>,
     tot_bwd_pkts |-> <<"t","o","t","_","b","w","d","_","p","k","t","s">>,
     fwd_bwd_ratio |-> <<"f","w","d","_","b","w","d","_","r","a","t","i","o">>,
     bwd_fwd_ratio |-> <<"b","w","d","_","f","w","d","_","r","a","t","i","o">>,
     totlen_fwd_pkts |-> <<"t","o","t","l","e","n","_","f","w","d","_","p","k","t","s">>,
     totlen_bwd_pkts |-> <<"t","o","t","l","e","n","_","b","w","d","_","p","k","t","s">>,
     avg_fwd_pkt_size |-> <<"a","v","g","_","f","w","d","_","p","k","t","_","s","i","z","e">>,
     avg_bwd_pkt_size |-> <<"a","v","g","_","b","w","d","_","p","k","t","_","s","i","z","e">>,
     flow_duration |-> <<"f","l","o","w","_","d","u","r","a","t","i","o","n">>,
     flow_pkts_s |-> <<"f","l","o","w","_","p","k","t","s","_","s">>,
     flow_efficiency |-> <<"f","l","o","w","_","e","f","f","i","c","i","e","n","c","y">>,
     fin_flag_cnt |-> <<"f","i","n","_","f","l","a","g","_","c","n","t">>,
     syn_flag_cnt |-> <<"s","y","n","_","f","l","a","g","_","c","n","t">>,
     rst_flag_cnt |-> <<"r","s","t","_","f","l","a","g","_","c","n","t">>,
     psh_flag_cnt |-> <<"p","s","h","_","f","l","a","g","_","c","n","t">>,
     ack_flag_cnt |-> <<"a","c","k","_","f","l","a","g","_","c","n","t">>,
     urg_flag_cnt |-> <<"u","r","g","_","f","l","a","g","_","c","n","t">>,
     total_flags |-> <<"t","o","t","a","l","_","f","l","a","g","s">>,
     flag_diversity |-> <<"f","l","a","g","_","d","i","v","e","r","s","i","t","y">>,
     is_tcp |-> <<"i","s","_","t","c","p">>,
     is_udp |-> <<"i","s","_","u","d","p">>,
     is_icmp |-> <<"i","s","_","i","c","m","p">>,
     src_is_wellknown |-> <<"s","r","c","_","i","s","_","w","e","l","l","k","n","o","w","n">>,
     dst_is_wellknown |-> <<"d","s","t","_","i","s","_","w","e","l","l","k","n","o","w","n">>,
     src_is_common |-> <<"s","r","c","_","i","s","_","c","o","m","m","o","n">>,
     dst_is_common |-> <<"d","s","t","_","i","s","_","c","o","m","m","o","n">>,
     source_file |-> <<"s","o","u","r","c","e","_","f","i","l","e">>,
     timestamp |-> <<"t","i","m","e","s","t","a","m","p">>,
     Timestamp |-> <<"T","i","m","e","s","t","a","m","p">>,
     Unnamed |-> <<"U","n","n","a","m","e","d">>,
     label |-> <<"l","a","b","e","l">>]

\* a table that collapses the generic tokens through one another: DDOS
\* goes to ATTACK, which is itself a key
label_mapping_chained ==
    <<
       <<<<"N","O","R","M","A","L">>, <<"B","E","N","I","G","N">>>>,
       <<<<"D","D","O","S">>, <<"A","T","T","A","C","K">>>>,
       <<<<"A","T","T","A","C","K">>, <<"U","D","P">>>>
    >>

\* lines 276-296
label_mapping ==
    <<
       <<<<"B","E","N","I","G","N">>, <<"B","E","N","I","G","N">>>>,
       <<<<"N","O","R","M","A","L">>, <<"B","E","N","I","G","N">>>>,
       <<<<"D","N","S">>, <<"D","N","S">>>>,
       <<<<"N","T","P">>, <<"N","T","P">>>>,
       <<<<"H","T","T","P">>, <<"H","T","T","P">>>>,
       <<<<"L","D","A","P">>, <<"L","D","A","P">>>>,
       <<<<"M","S","S","Q","L">>, <<"M","S","S","Q","L">>>>,
       <<<<"N","E","T","B","I","O","S">>, <<"N","e","t","B","I","O","S">>>>,
       <<<<"N","E","T","B","I","O","S","_","N","A","M","E","_","S","E","R","V","I","C","E">>, <<"N","e","t","B","I","O","S">>>>,
       <<<<"P","O","R","T","M","A","P">>, <<"P","o","r","t","m","a","p">>>>,
       <<<<"R","E","C","U","R","S","I","V","E","_","G","E","T">>, <<"R","E","C","U","R","S","I","V","E","_","G","E","T">>>>,
       <<<<"S","L","O","W","L","O","R","I","S">>, <<"S","L","O","W","L","O","R","I","S">>>>,
       <<<<"S","L","O","W","_","P","O","S","T">>, <<"S","L","O","W","_","P","O","S","T">>>>,
       <<<<"S","Y","N">>, <<"S","Y","N">>>>,
       <<<<"U","D","P">>, <<"U","D","P">>>>,
       <<<<"U","D","P","L","A","G">>, <<"U","D","P","L","a","g">>>>,
       <<<<"D","D","O","S">>, <<"U","D","P">>>>,
       <<<<"A","T","T","A","C","K">>, <<"U","D","P">>>>,
       <<<<"F","L","O","O","D">>, <<"U","D","P">>>>
    >>

columns_of(df) == [i \in 1..Len(df) |-> df[i].name]

has_column(df, name) == \E i \in 1..Len(df) : df[i].name = name

\* df[name]
column(df, name) == df[CHOOSE i \in 1..Len(df) : df[i].name = name].values

\* df[name] = values: an existing column is replaced in place, a new one
\* is appended
assign(df, name, dtype, values) ==
    LET new == [name |-> name, dtype |-> dtype, values |-> values]
    IN  IF has_column(df, name)
        THEN [i \in 1..Len(df) |-> IF df[i].name = name THEN new ELSE df[i]]
        ELSE Append(df, new)

\* a / (b + 1), row by row
ratio(a, b) == [i \in 1..Len(a) |-> f_div(a[i], f_add(b[i], Num(1)))]

\* (condition).astype(int), row by row
as_int(flag) == IF flag THEN Num(1) ELSE Num(0)

RECURSIVE sum_skipna(_)
\* DataFrame.sum(axis=1) on one row: NaN cells are skipped
sum_skipna(cells) ==
    IF cells = <<>> THEN Num(0)
    ELSE IF is_nan(Head(cells)) THEN sum_skipna(Tail(cells))
    ELSE f_add(Head(cells), sum_skipna(Tail(cells)))

\* line 159
flag_cols ==
    <<names.fin_flag_cnt, names.syn_flag_cnt, names.rst_flag_cnt,
      names.psh_flag_cnt, names.ack_flag_cnt, names.urg_flag_cnt>>

\* line 177
common_ports == {80, 443, 22, 21, 25, 53, 110, 995, 993, 143}

\* the one element of a singleton set.  the({f(x) : x \in {e}})  is  f(e)
\* with  e  worked out once, before  f  uses it
the(S) == CHOOSE x \in S : TRUE

\* lines 144-146
add_ratio_features(df) ==
    IF has_column(df, names.tot_fwd_pkts) /\ has_column(df, names.tot_bwd_pkts)
    THEN assign(assign(df, names.fwd_bwd_ratio, "number",
                       ratio(column(df, names.tot_fwd_pkts),
                             column(df, names.tot_bwd_pkts))),
                names.bwd_fwd_ratio, "number",
                ratio(column(df, names.tot_bwd_pkts),
                      column(df, names.tot_fwd_pkts)))
    ELSE df

\* lines 149-150
add_avg_fwd_pkt_size(df) ==
    IF has_column(df, names.totlen_fwd_pkts) /\ has_column(df, names.tot_fwd_pkts)
    THEN assign(df, names.avg_fwd_pkt_size, "number",
                ratio(column(df, names.totlen_fwd_pkts),
                      column(df, names.tot_fwd_pkts)))
    ELSE df

\* lines 151-152
add_avg_bwd_pkt_size(df) ==
    IF has_column(df, names.totlen_bwd_pkts) /\ has_column(df, names.tot_bwd_pkts)
    THEN assign(df, names.avg_bwd_pkt_size, "number",
                ratio(column(df, names.totlen_bwd_pkts),
                      column(df, names.tot_bwd_pkts)))
    ELSE df

\* lines 155-156
add_flow_efficiency(df) ==
    IF has_column(df, names.flow_duration) /\ has_column(df, names.flow_pkts_s)
    THEN assign(df, names.flow_efficiency, "number",
                [i \in 1..Len(df[1].values) |->
                    f_mul(column(df, names.flow_pkts_s)[i],
                          column(df, names.flow_duration)[i])])
    ELSE df

\* lines 159-163
add_flag_features(df) ==
    LET available_flags == SelectSeq(flag_cols, LAMBDA c : has_column(df, c))
        flags(i) == [j \in 1..Len(available_flags) |-> column(df, available_flags[j])[i]]
    IN  IF Len(available_flags) >= 2
        THEN assign(assign(df, names.total_flags, "number",
                           [i \in 1..Len(df[1].values) |-> sum_skipna(flags(i))]),
                    names.flag_diversity, "number",
                    [i \in 1..Len(df[1].values) |->
                        Num(Len(SelectSeq(flags(i), LAMBDA x : f_lt(Num(0), x))))])
        ELSE df

\* lines 166-169 with the first indicator written over the column it reads
add_protocol_features_inplace(df) ==
    LET protocol_is(p) ==
            [i \in 1..Len(df[1].values) |->
                as_int(f_eq(column(df, names.protocol)[i], Num(p)))]
    IN  IF has_column(df, names.protocol)
        THEN assign(assign(assign(df, names.protocol, "number", protocol_is(6)),
                           names.is_udp, "number", protocol_is(17)),
                    names.is_icmp, "number", protocol_is(1))
        ELSE df

\* lines 166-169
add_protocol_features(df) ==
    LET protocol_is(p) ==
            [i \in 1..Len(df[1].values) |->
                as_int(f_eq(column(df, names.protocol)[i], Num(p)))]
    IN  IF has_column(df, names.protocol)
        THEN assign(assign(assign(df, names.is_tcp, "number", protocol_is(6)),
                           names.is_udp, "number", protocol_is(17)),
                    names.is_icmp, "number", protocol_is(1))
        ELSE df

\* lines 172-179
add_port_features(df) ==
    LET wellknown(c) ==
            [i \in 1..Len(df[1].values) |-> as_int(f_le(column(df, c)[i], Num(1024)))]
        common(c) ==
            [i \in 1..Len(df[1].values) |-> as_int(\E p \in common_ports : f_eq(column(df, c)[i], Num(p)))]
    IN  IF has_column(df, names.src_port) /\ has_column(df, names.dst_port)
        THEN assign(assign(assign(assign(df,
                 names.src_is_wellknown, "number", wellknown(names.src_port)),
                 names.dst_is_wellknown, "number", wellknown(names.dst_port)),
                 names.src_is_common, "number", common(names.src_port)),
                 names.dst_is_common, "number", common(names.dst_port))
        ELSE df

\* lines 139-182: the blocks in the order they run, each on the frame the
\* one before it left.  (Every column a block reads is one no block writes,
\* so a block reads it from the frame it was given.)
create_engineered_features(df) ==
    the({add_port_features(d6) : d6 \in
        {add_protocol_features(d5) : d5 \in
        {add_flag_features(d4) : d4 \in
        {add_flow_efficiency(d3) : d3 \in
        {add_avg_bwd_pkt_size(d2) : d2 \in
        {add_avg_fwd_pkt_size(d1) : d1 \in
        {add_ratio_features(d0) : d0 \in {df}}}}}}}})

\* Python's None, where a frame, a list or a series is expected
None == [is_none |-> TRUE]

\* lines 252-258: the five identifier columns as they stand on entry;
\* None for a column the frame lacks
network_identifiers(df) ==
    LET copy(name) == IF has_column(df, name)
                      THEN [is_none |-> FALSE, values |-> column(df, name)]
                      ELSE None
    IN  [src_ip |-> copy(names.src_ip), dst_ip |-> copy(names.dst_ip),
         protocol |-> copy(names.protocol), src_port |-> copy(names.src_port),
         dst_port |-> copy(names.dst_port)]

\* lines 265-267
drop_unnecessary(df) ==
    SelectSeq(df, LAMBDA c : /\ c.name # names.source_file
                             /\ c.name # names.timestamp
                             /\ c.name # names.Timestamp
                             /\ ~str_contains(names.Unnamed, c.name))

\* line 299 without its .fillna(df[target_column]): a label the table lacks
\* becomes the missing value
map_label_unfilled(token) ==
    LET hits == {i \in 1..Len(label_mapping) : label_mapping[i][1] = token}
    IN  IF hits = {} THEN <<"n","a","n">> ELSE label_mapping[CHOOSE i \in hits : TRUE][2]

\* line 299 on one cell: .map(label_mapping).fillna(df[target_column]), a
\* label the table lacks is kept
map_label(token) ==
    LET hits == {i \in 1..Len(label_mapping) : label_mapping[i][1] = token}
    IN  IF hits = {} THEN token ELSE label_mapping[CHOOSE i \in hits : TRUE][2]

\* line 299
map_labels(df) ==
    assign(df, target_column, "object",
           [i \in 1..Len(column(df, target_column)) |->
               map_label(column(df, target_column)[i])])

\* line 309-310: the columns the encoding loop visits
categorical_columns(df) ==
    SelectSeq(df, LAMBDA c : /\ c.name # target_column
                             /\ c.dtype = "object"
                             /\ c.name # names.src_ip
                             /\ c.name # names.dst_ip)

\* LabelEncoder.fit: classes_, the distinct values in sorted order
classes_of(values) == SortedLabels({values[i] : i \in 1..Len(values)})

\* lines 309-314: the frame after the loop.  LabelEncoder.transform gives
\* a value its position in classes_, from 0
encode_categoricals(df) ==
    LET encode(classes, value) ==
            Num((CHOOSE k \in 1..Len(classes) : classes[k] = value) - 1)
    IN
    [i \in 1..Len(df) |->
        IF \E j \in 1..Len(categorical_columns(df)) :
               categorical_columns(df)[j].name = df[i].name
        THEN [name |-> df[i].name, dtype |-> "number",
              values |-> [r \in 1..Len(df[i].values) |->
                             encode(classes_of(df[i].values), df[i].values[r])]]
        ELSE df[i]]

\* lines 311-313: self.label_encoders after the loop, in insertion order
fitted_encoders(df) ==
    [j \in 1..Len(categorical_columns(df)) |->
        [column |-> categorical_columns(df)[j].name,
         classes_ |-> classes_of(categorical_columns(df)[j].values)]]

\* lines 318, 322-323
numeric_features(df) ==
    SelectSeq(df, LAMBDA c : c.name # target_column /\ c.dtype # "object")

\* lines 332-337 on one column
fill_missing(values) ==
    LET filled == fillna(values, median(values))
        finite == replace_inf(filled)
    IN  fillna(finite, median(finite))

\* lines 332-345: missing and infinite values filled, constant columns dropped
clean_features(X) ==
    LET filled == [i \in 1..Len(X) |-> [X[i] EXCEPT !.values = fill_missing(@)]]
    IN  SelectSeq(filled, LAMBDA c : ~std_is_zero(c.values))

\* lines 349-353: lower_bound and upper_bound, one pair per column
outlier_bounds(X) == [i \in 1..Len(X) |-> clip_bounds(X[i].values)]

\* line 354
clip_features(X, bounds) ==
    [i \in 1..Len(X) |-> [X[i] EXCEPT !.values = clip(@, bounds[i])]]

\* sklearn _validate_shuffle_split with test_size = 0.2: ceil(0.2 * n).
\* (0.2 * n in binary floating point rounds up to the integer above for some
\* n from 15 on; the frames modelled here are smaller.)
n_test_of(n) == (n + 4) \div 5

n_train_of(n) == n - n_test_of(n)

RECURSIVE SumOver(_, _)
SumOver(S, f) ==
    IF S = {} THEN 0
    ELSE LET x == CHOOSE x \in S : TRUE IN f[x] + SumOver(S \ {x}, f)

class_counts(y) ==
    [c \in {y[i] : i \in 1..Len(y)} |-> Cardinality({i \in 1..Len(y) : y[i] = c})]

\* sklearn _approximate_mode: the per-class draws it can return.  Every
\* class gets the floor of its share; the remaining draws go to the classes
\* with the largest remainders, ties broken by the random generator.
approximate_mode(counts, n_draws) ==
    LET classes == DOMAIN counts
        total == SumOver(classes, counts)
        floored == [c \in classes |-> (counts[c] * n_draws) \div total]
        remainder == [c \in classes |-> (counts[c] * n_draws) % total]
        need_to_add == n_draws - SumOver(classes, floored)
    IN  {[c \in classes |-> floored[c] + IF c \in S THEN 1 ELSE 0] :
            S \in {S \in SUBSET classes :
                      /\ Cardinality(S) = need_to_add
                      /\ \A a \in S, b \in classes \ S : remainder[a] >= remainder[b]}}

\* StratifiedShuffleSplit raises ValueError unless every class has two
\* members and both parts can hold one row of every class
stratify_possible(y) ==
    LET counts == class_counts(y)
        n == Len(y)
    IN  /\ n_train_of(n) > 0
        /\ \A c \in DOMAIN counts : counts[c] >= 2
        /\ n_train_of(n) >= Cardinality(DOMAIN counts)
        /\ n_test_of(n) >= Cardinality(DOMAIN counts)

\* lines 358-366: the test rows train_test_split can return; the empty set
\* when the second call raises as well.  The permutation random_state = 42
\* yields is left open: any split of the permitted shape.
test_rows(y) ==
    LET n == Len(y)
        counts == class_counts(y)
        members(c) == {i \in 1..n : y[i] = c}
    IN  IF n_train_of(n) <= 0 THEN {}
        ELSE IF stratify_possible(y)
        THEN {T \in SUBSET (1..n) :
                 \E train \in approximate_mode(counts, n_train_of(n)) :
                     \A c \in DOMAIN counts :
                         Cardinality(T \cap members(c)) = counts[c] - train[c]}
        ELSE {T \in SUBSET (1..n) : Cardinality(T) = n_test_of(n)}

\* the rows  index  of a feature frame, keyed by their original row label
take(X, index) ==
    [is_none |-> FALSE, columns |-> columns_of(X), index |-> index,
     at |-> [r \in index |-> [j \in 1..Len(X) |-> X[j].values[r]]]]

take_labels(y, index) ==
    [is_none |-> FALSE, index |-> index, at |-> [r \in index |-> y[r]]]

\* lines 276-314 and 319, on the frame lines 262-267 left
encode_frame(cleaned) ==
    the({[df |-> encode_categoricals(mapped),
          label_encoders |-> fitted_encoders(mapped),
          y |-> column(mapped, target_column)] : mapped \in {map_labels(cleaned)}})

\* lines 318-354, on the encoded frame
feature_matrix(encoded) ==
    the({the({[feature_columns |-> [is_none |-> FALSE, columns |-> columns_of(X_clean)],
               X_unclipped |-> X_clean,
               bounds |-> bounds,
               X |-> clip_features(X_clean, bounds)] :
                  bounds \in {outlier_bounds(X_clean)}}) :
            X_clean \in {clean_features(numeric_features(encoded))}})

\* lines 247-354: everything preprocess_unified_data does before the split
prepare(df) ==
    the({the({IF has_column(cleaned, target_column)
              THEN the({the({[original_network_data |-> network_identifiers(df0),
                              target_found |-> TRUE,
                              df |-> e.df,
                              label_encoders |-> e.label_encoders,
                              feature_columns |-> m.feature_columns,
                              X_unclipped |-> m.X_unclipped,
                              bounds |-> m.bounds,
                              X |-> m.X,
                              y |-> e.y] : m \in {feature_matrix(e.df)}}) :
                          e \in {encode_frame(cleaned)}})
              ELSE [original_network_data |-> network_identifiers(df0),
                    target_found |-> FALSE,
                    df |-> cleaned,
                    label_encoders |-> <<>>,
                    feature_columns |-> None,
                    X_unclipped |-> <<>>,
                    bounds |-> <<>>,
                    X |-> <<>>,
                    y |-> <<>>] :
                cleaned \in {drop_unnecessary(create_engineered_features(df0))}}) :
            df0 \in {df}})

\* the largest frame preprocessed
MaxRows == 5

\* the cells and labels of the narrow frames: one measurement column, the
\* label as load_all_datasets leaves it, and the source_file tag
NarrowKinds ==
    LET CellPool == <<Num(0), Num(1), Num(9), NaN, PosInf>>
        LabelPool == <<<<"N","O","R","M","A","L">>, <<"D","D","O","S">>>>
    IN  [k \in 1..(Len(CellPool) * Len(LabelPool)) |->
            [cell |-> CellPool[((k - 1) \div Len(LabelPool)) + 1],
             label |-> LabelPool[((k - 1) % Len(LabelPool)) + 1]]]

narrow_frame(kinds) ==
    << [name |-> names.flow_duration, dtype |-> "number",
        values |-> [i \in 1..Len(kinds) |-> NarrowKinds[kinds[i]].cell]],
       [name |-> target_column, dtype |-> "object",
        values |-> [i \in 1..Len(kinds) |-> NarrowKinds[kinds[i]].label]],
       [name |-> names.source_file, dtype |-> "object",
        values |-> [i \in 1..Len(kinds) |-> <<"d","a","y","1">>]] >>

\* the rows of the wide frames: a TCP flow, a UDP flood with a zero
\* duration, and a row with missing measurements
WideKinds ==
    << [src_ip |-> <<"1","0",".","0",".","0",".","1">>, service |-> <<"h","t","t","p">>, stamp |-> <<"0",":","0","1">>,
        protocol |-> Num(6), src_port |-> Num(51000), dst_port |-> Num(443),
        tot_fwd_pkts |-> Num(2), tot_bwd_pkts |-> Num(1),
        totlen_fwd_pkts |-> Num(120), flow_duration |-> Num(4),
        flow_pkts_s |-> Frac(3, 4), syn_flag_cnt |-> Num(1),
        ack_flag_cnt |-> Num(2), unnamed |-> Num(0), label |-> <<"B","E","N","I","G","N">>],
       [src_ip |-> <<"1","0",".","0",".","0",".","2">>, service |-> <<"d","n","s">>, stamp |-> <<"0",":","0","2">>,
        protocol |-> Num(17), src_port |-> Num(53), dst_port |-> Num(1024),
        tot_fwd_pkts |-> Num(9), tot_bwd_pkts |-> Num(0),
        totlen_fwd_pkts |-> Num(90), flow_duration |-> Num(0),
        flow_pkts_s |-> PosInf, syn_flag_cnt |-> Num(0),
        ack_flag_cnt |-> Num(0), unnamed |-> Num(1), label |-> <<"F","L","O","O","D">>],
       [src_ip |-> <<"1","0",".","0",".","0",".","2">>, service |-> <<"d","n","s">>, stamp |-> <<"0",":","0","3">>,
        protocol |-> NaN, src_port |-> NaN, dst_port |-> Num(80),
        tot_fwd_pkts |-> Num(0 - 1), tot_bwd_pkts |-> NaN,
        totlen_fwd_pkts |-> Num(60), flow_duration |-> NaN,
        flow_pkts_s |-> NaN, syn_flag_cnt |-> NaN,
        ack_flag_cnt |-> Num(1), unnamed |-> Num(2), label |-> <<"P","R","O","B","E">>] >>

wide_frame(kinds, labelled) ==
    LET rows == 1..Len(kinds)
        cells(f(_)) == [i \in rows |-> f(WideKinds[kinds[i]])]
        features ==
            << [name |-> names.src_ip, dtype |-> "object", values |-> cells(LAMBDA k : k.src_ip)],
               [name |-> <<"s","e","r","v","i","c","e">>, dtype |-> "object", values |-> cells(LAMBDA k : k.service)],
               [name |-> names.Timestamp, dtype |-> "object", values |-> cells(LAMBDA k : k.stamp)],
               [name |-> <<"U","n","n","a","m","e","d",":"," ","0">>, dtype |-> "number", values |-> cells(LAMBDA k : k.unnamed)],
               [name |-> names.protocol, dtype |-> "number", values |-> cells(LAMBDA k : k.protocol)],
               [name |-> names.src_port, dtype |-> "number", values |-> cells(LAMBDA k : k.src_port)],
               [name |-> names.dst_port, dtype |-> "number", values |-> cells(LAMBDA k : k.dst_port)],
               [name |-> names.tot_fwd_pkts, dtype |-> "number", values |-> cells(LAMBDA k : k.tot_fwd_pkts)],
               [name |-> names.tot_bwd_pkts, dtype |-> "number", values |-> cells(LAMBDA k : k.tot_bwd_pkts)],
               [name |-> names.totlen_fwd_pkts, dtype |-> "number", values |-> cells(LAMBDA k : k.totlen_fwd_pkts)],
               [name |-> names.flow_duration, dtype |-> "number", values |-> cells(LAMBDA k : k.flow_duration)],
               [name |-> names.flow_pkts_s, dtype |-> "number", values |-> cells(LAMBDA k : k.flow_pkts_s)],
               [name |-> names.syn_flag_cnt, dtype |-> "number", values |-> cells(LAMBDA k : k.syn_flag_cnt)],
               [name |-> names.ack_flag_cnt, dtype |-> "number", values |-> cells(LAMBDA k : k.ack_flag_cnt)] >>
    IN  IF labelled
        THEN features \o << [name |-> target_column, dtype |-> "object",
                             values |-> cells(LAMBDA k : k.label)] >>
        ELSE features

\* the frames handed to preprocess_unified_data (nothing in it depends on
\* the order of the rows, so they are listed kind by kind): narrow ones of
\* every size, wide ones of the largest size, with and without the label
\* column
Frames ==
    {narrow_frame(kinds) :
        kinds \in UNION {NonDecreasing(m, 1, Len(NarrowKinds)) : m \in 1..MaxRows}}
    \cup {wide_frame(kinds, labelled) :
            kinds \in NonDecreasing(MaxRows, 1, Len(WideKinds)), labelled \in BOOLEAN}

\* a fresh analyzer (lines 38-40) about to preprocess one frame
InitPrep ==
    /\ prep_pc = "start"
    /\ prep_input \in Frames
    /\ prep_df = prep_input
    /\ original_network_data = <<>>
    /\ label_encoders = <<>>
    /\ feature_columns = None
    /\ X_unclipped = None
    /\ bounds_used = None
    /\ prep_X_train = None
    /\ prep_X_test = None
    /\ prep_y_train = None
    /\ prep_y_test = None

\* preprocess_unified_data(df), lines 247-372, in one step
PreprocessUnifiedData ==
    /\ prep_pc = "start"
    /\ \E p \in {prepare(prep_df)} :
           LET n == Len(p.y)
           IN
           /\ original_network_data' = p.original_network_data
           /\ prep_df' = p.df
           /\ label_encoders' = p.label_encoders
           /\ feature_columns' = p.feature_columns
           /\ IF ~p.target_found
              THEN /\ prep_pc' = "returned_none"
                   /\ UNCHANGED <<X_unclipped, bounds_used>>
                   /\ prep_X_train' = None /\ prep_X_test' = None
                   /\ prep_y_train' = None /\ prep_y_test' = None
              ELSE /\ X_unclipped' = take(p.X_unclipped, 1..n)
                   /\ bounds_used' = [is_none |-> FALSE, bounds |-> p.bounds]
                   /\ IF test_rows(p.y) = {}
                      THEN /\ prep_pc' = "raised"
                           /\ UNCHANGED <<prep_X_train, prep_X_test, prep_y_train, prep_y_test>>
                      ELSE \E test \in test_rows(p.y) :
                              /\ prep_pc' = "returned"
                              /\ prep_X_train' = take(p.X, (1..n) \ test)
                              /\ prep_X_test' = take(p.X, test)
                              /\ prep_y_train' = take_labels(p.y, (1..n) \ test)
                              /\ prep_y_test' = take_labels(p.y, test)
    /\ UNCHANGED <<prep_input,
                 vars_norm, vars_load, vars_train, vars_store, vars_select, vars_predict,
                 vars_label, vars_eng>>

(***************************************************************************)
(* Label standardization: what the pipeline makes of one cell of a label   *)
(* column, line 215 of load_all_datasets followed by line 299 of           *)
(* preprocess_unified_data.                                                *)
(***************************************************************************)

\* lines 215 and 299 on one label cell
standardize(token) == map_label(clean_label(token))

\* the passes followed: the cell as read, standardized, standardized again
MaxPasses == 2

\* the cells read: every key of the table in upper case, in lower case and
\* capitalised inside blanks, the values the table spells in mixed case, and
\* tokens the table lacks
LabelTokens ==
    LET capitalised(key) == <<" ">> \o <<Head(key)>> \o str_lower(Tail(key)) \o <<" ", " ">>
    IN  UNION {{label_mapping[i][1], str_lower(label_mapping[i][1]),
                capitalised(label_mapping[i][1]), label_mapping[i][2]} :
                  i \in 1..Len(label_mapping)}
        \cup {<<"D","D","o","S">>, <<"P","R","O","B","E">>, <<" ","p","r","o","b","e">>,
              <<"s","l","o","w"," ","p","o","s","t">>, <<"n","a","n">>, <<>>}

InitLabel ==
    /\ label_raw \in LabelTokens
    /\ label_std = <<>>

\* one pass of lines 215 and 299 over the cell, on what the pass before left
StandardizeLabel ==
    /\ Len(label_std) < MaxPasses
    /\ label_std' = Append(label_std,
                           standardize(IF label_std = <<>> THEN label_raw
                                       ELSE label_std[Len(label_std)]))
    /\ UNCHANGED <<label_raw, vars_norm, vars_load, vars_train, vars_store, vars_select,
                   vars_predict, vars_prep, vars_eng>>

(***************************************************************************)
(* Feature engineering on its own: create_engineered_features (lines       *)
(* 139-182) on frames holding any selection of its source columns.         *)
(***************************************************************************)

\* the rows of the frames engineered
MaxEngRows == 1

\* a frame for every selection of the columns the method reads, in a fixed
\* order, followed by the label column; the cells run through counts,
\* protocol numbers, ports, a missing and an infinite value
InitEng ==
    LET sources == <<names.tot_fwd_pkts, names.tot_bwd_pkts, names.totlen_fwd_pkts,
                     names.totlen_bwd_pkts, names.flow_duration, names.flow_pkts_s>>
                   \o flag_cols
                   \o <<names.protocol, names.src_port, names.dst_port>>
        cells == <<Num(6), Num(0), Num(17), NaN, Num(80), Num(2000), Num(1), PosInf>>
        measurement(c) ==
            [name |-> sources[c], dtype |-> "number",
             values |-> [r \in 1..MaxEngRows |-> cells[((c + r) % Len(cells)) + 1]]]
        labels == [name |-> target_column, dtype |-> "object",
                   values |-> [r \in 1..MaxEngRows |-> <<"S","Y","N">>]]
        frame(present) ==
            [i \in 1..Cardinality(present) |->
                measurement(CHOOSE c \in present :
                                Cardinality({b \in present : b < c}) = i - 1)]
            \o <<labels>>
    IN  /\ eng_pc = "start"
        /\ eng_input \in {frame(present) : present \in SUBSET (1..Len(sources))}
        /\ eng_df = eng_input

CreateEngineeredFeatures ==
    /\ eng_pc = "start"
    /\ eng_df' = create_engineered_features(eng_df)
    /\ eng_pc' = "returned"
    /\ UNCHANGED <<eng_input, vars_norm, vars_load, vars_train, vars_store, vars_select,
                   vars_predict, vars_prep, vars_label>>

(***************************************************************************)
(* Specifications                                                          *)
(***************************************************************************)
\* the state one scenario starts in: the component named is about to run
\* (its Init), every other component holds the values of a fresh analyzer
\* and takes no step
Scenario(component) ==
    /\ IF component = "norm"
       THEN InitNorm
       ELSE
           /\ raw_columns = <<>>
           /\ df_columns = <<>>
           /\ norm_pc = "idle"
    /\ IF component = "load"
       THEN InitLoad
       ELSE
           /\ csv_files = <<>>
           /\ max_samples_per_file = 0
           /\ unified_data = [is_none |-> TRUE, columns |-> <<>>, rows |-> <<>>]
           /\ load_pc = "idle"
    /\ IF component = "train"
       THEN InitTrain
       ELSE
           /\ n_train = 0
           /\ cand_i = 0
           /\ outcomes = <<>>
           /\ results = <<>>
           /\ best_model = "None"
           /\ best_score = 0
           /\ best_model_name = ""
           /\ self_best_model = "unset"
           /\ train_pc = "idle"
    /\ IF component = "store"
       THEN InitStore
       ELSE
           /\ disk = [u \in {"model", "scaler", "metadata"} |-> Missing]
           /\ saver = new_analyzer
           /\ save_pc = "idle"
           /\ loader = new_analyzer
           /\ loader_before = new_analyzer
           /\ load_step = "idle"
           /\ load_result = "none"
    /\ IF component = "select"
       THEN InitSelect
       ELSE
           /\ sel_self = [best_model |-> NoModel, scaler |-> "", feature_columns |-> <<>>,
                          label_encoders |-> 0, original_network_data |-> 0,
                          feature_selector |-> NoSelector, pca |-> 0]
           /\ X_train_cols = <<>>
           /\ X_test_cols = <<>>
           /\ sel_method = ""
           /\ sel_k = 0
           /\ saved = NothingSaved
           /\ sel_pc = "idle"
    /\ IF component = "predict"
       THEN InitPredict
       ELSE
           /\ pred_model = [predict_proba |-> FALSE]
           /\ pred_X = [stages |-> <<>>, rows |-> <<>>]
           /\ invoked_on = [stages |-> <<>>, rows |-> <<>>]
           /\ pred_out = [predictions |-> <<>>, confidences |-> <<>>]
           /\ pred_pc = "idle"
    /\ IF component = "prep"
       THEN InitPrep
       ELSE
           /\ prep_pc = "idle"
           /\ prep_input = <<>>
           /\ prep_df = <<>>
           /\ original_network_data = <<>>
           /\ label_encoders = <<>>
           /\ feature_columns = None
           /\ X_unclipped = None
           /\ bounds_used = None
           /\ prep_X_train = None
           /\ prep_X_test = None
           /\ prep_y_train = None
           /\ prep_y_test = None
    /\ IF component = "label"
       THEN InitLabel
       ELSE
           /\ label_raw = <<>>
           /\ label_std = <<>>
    /\ IF component = "eng"
       THEN InitEng
       ELSE
           /\ eng_input = <<>>
           /\ eng_df = <<>>
           /\ eng_pc = "idle"

SpecNorm == Scenario("norm") /\ [][NormalizeColumnNames]_vars

SpecLoad == Scenario("load") /\ [][LoadAllDatasets]_vars

SpecTrain == Scenario("train") /\ [][NextTrain]_vars

SpecStore == Scenario("store") /\ [][NextStore]_vars

SpecSelect == Scenario("select") /\ [][NextSelect]_vars

SpecPredict == Scenario("predict") /\ [][PredictWithConfidence]_vars

SpecPrep == Scenario("prep") /\ [][PreprocessUnifiedData]_vars

SpecLabel == Scenario("label") /\ [][StandardizeLabel]_vars

SpecEng == Scenario("eng") /\ [][CreateEngineeredFeatures]_vars

(***************************************************************************)
(* Claims                                                                  *)
(***************************************************************************)

\* C1: every raw header that is a key of the static column_mappings table is
\* renamed by normalize_column_names to the canonical name the table gives
\* for it (so 'Flow Packets/s' becomes 'flow_pkts_s').
C1_TableHeadersRenamed ==
    norm_pc = "normalized" =>
        \A i \in 1..Len(raw_columns) :
            raw_columns[i] \in column_mappings_keys
                => df_columns[i] = column_mappings_get(raw_columns[i])

\* the files of the directory the loop accepts: they parse and, once
\* normalised, carry exactly one label column
Accepted(file) ==
    /\ file.parses
    /\ LET resolved == resolve_label(normalize_column_names(file.columns))
       IN  /\ resolved.found
           /\ Cardinality({i \in 1..Len(resolved.columns) :
                              resolved.columns[i] = target_column}) = 1

\* the index in csv_files of the file a unified row is tagged with
FileOf(row) ==
    CHOOSE i \in 1..Len(csv_files) :
        csv_files[i].name = row.source_file \o <<".","c","s","v">>

\* C10: a file that does not parse or has no resolvable label column gives
\* no row to the unified dataset and does not stop the run: every row is
\* tagged with an accepted file of the directory, the rows come in
\* file-listing order, an accepted file that is not sampled gives all its
\* rows in their order, and the result is None exactly when no file was
\* accepted.
C10_SourceContainment ==
    load_pc = "loaded" =>
        LET rows == unified_data.rows
            of(i) == SelectSeq(rows, LAMBDA r : r.source_file \o <<".","c","s","v">> = csv_files[i].name)
        IN  /\ \A k \in 1..Len(rows) :
                  /\ \E i \in 1..Len(csv_files) :
                        csv_files[i].name = rows[k].source_file \o <<".","c","s","v">>
                  /\ Accepted(csv_files[FileOf(rows[k])])
                  /\ rows[k].row \in 1..Len(csv_files[FileOf(rows[k])].rows)
                  /\ rows[k].label = clean_label(csv_files[FileOf(rows[k])].rows[rows[k].row])
            /\ \A k, l \in 1..Len(rows) : k < l => FileOf(rows[k]) <= FileOf(rows[l])
            /\ \A i \in 1..Len(csv_files) :
                  /\ ~Accepted(csv_files[i]) => of(i) = <<>>
                  /\ Accepted(csv_files[i]) /\ Len(csv_files[i].rows) <= max_samples_per_file
                        => /\ Len(of(i)) = Len(csv_files[i].rows)
                           /\ \A k \in 1..Len(of(i)) : of(i)[k].row = k
            /\ unified_data.is_none <=> (\A i \in 1..Len(csv_files) : ~Accepted(csv_files[i]))

\* C10 witness: the first file is skipped (unreadable or without a label
\* column) and the rows of the second file are in the unified dataset
C10_Witness ==
    /\ load_pc = "loaded"
    /\ Len(csv_files) = 2
    /\ ~Accepted(csv_files[1])
    /\ Len(csv_files[2].rows) >= 1
    /\ ~unified_data.is_none
    /\ Len(unified_data.rows) = Len(csv_files[2].rows)
    /\ unified_data.rows[1].source_file = <<"b">>

\* the candidates tried so far that did not raise, as indexes into models
Succeeded == {i \in 1..Len(outcomes) : ~outcomes[i].raised}

\* the recorded results of the candidates (all but the ensemble's)
CandidateResults == SelectSeq(results, LAMBDA r : r.name # "Ensemble")

\* the largest of a non-empty set of numbers
Max(S) == CHOOSE x \in S : \A y \in S : y <= x

\* C7: a candidate whose search, fit or evaluation raises has no entry in
\* results and leaves the provisional best alone, every later candidate is
\* still trained and recorded in the configured order, and train_best_model
\* does not raise because of it (only the ensemble, built after every
\* candidate was tried and three succeeded, can make it raise).
C7_CandidateFailureContained ==
    train_pc \in {"loop", "done", "raised"} =>
        LET ms == models(n_train)
        IN  /\ \A i \in 1..Len(outcomes) :
                  outcomes[i].raised
                      => /\ \A k \in 1..Len(results) : results[k].name # ms[i]
                         /\ best_model # ms[i]
            /\ Len(CandidateResults) = Cardinality(Succeeded)
            /\ \A i \in Succeeded :
                  LET k == Cardinality({j \in Succeeded : j <= i})
                  IN  /\ CandidateResults[k].name = ms[i]
                      /\ CandidateResults[k].test_f1 = outcomes[i].f1
            /\ train_pc = "loop" =>
                  /\ Len(outcomes) = cand_i - 1
                  /\ best_score = Max({0} \cup {outcomes[i].f1 : i \in Succeeded})
            /\ train_pc = "done" => Len(outcomes) = Len(ms)
            /\ train_pc = "raised" =>
                  Len(outcomes) = Len(ms) /\ Cardinality(Succeeded) >= 3

\* C7 witness: the first candidate raised, the second was recorded after it,
\* a later one raised too, and the function returned
C7_Witness ==
    /\ train_pc = "done"
    /\ outcomes[1].raised
    /\ ~outcomes[2].raised
    /\ outcomes[3].raised
    /\ Len(results) >= 2
    /\ results[1].name = "XGBoost"
    /\ results[2].name = "Extra Trees"

\* C8: when at least one candidate succeeded, the model train_best_model
\* returns and stores in self.best_model is a recorded result whose held-out
\* F1 is the largest of all recorded results, for every F1 including 0, and
\* among results of equal F1 it is the one recorded first.
C8_BestIsMaxF1 ==
    (train_pc = "done" /\ Succeeded # {}) =>
        /\ self_best_model = best_model
        /\ \E k \in 1..Len(results) :
              /\ results[k].name = self_best_model
              /\ \A j \in 1..Len(results) : results[j].test_f1 <= results[k].test_f1
              /\ \A j \in 1..(k - 1) : results[j].test_f1 < results[k].test_f1

\* the candidate the selection rule makes provisionally best: the first
\* recorded candidate of the largest held-out F1
ProvisionalBest ==
    CandidateResults[CHOOSE k \in 1..Len(CandidateResults) :
        /\ \A j \in 1..Len(CandidateResults) :
              CandidateResults[j].test_f1 <= CandidateResults[k].test_f1
        /\ \A j \in 1..(k - 1) : CandidateResults[j].test_f1 < CandidateResults[k].test_f1]

\* C9: on return an ensemble is recorded exactly when three or more
\* candidates succeeded; its members are the three successful candidates of
\* the highest F1, earlier ones first on ties; it is selected when its F1 is
\* strictly above the provisional best's, and otherwise the provisional best
\* stays selected.
C9_EnsembleRule ==
    train_pc = "done" =>
        LET ens == SelectSeq(results, LAMBDA r : r.name = "Ensemble")
            cs == CandidateResults
            pos(name) == CHOOSE k \in 1..Len(cs) : cs[k].name = name
            before(a, b) == \/ cs[a].test_f1 > cs[b].test_f1
                            \/ cs[a].test_f1 = cs[b].test_f1 /\ a < b
        IN  /\ Len(ens) = (IF Len(cs) >= 3 THEN 1 ELSE 0)
            /\ Len(ens) = 1 =>
                  LET m == ens[1].members
                  IN  /\ results[Len(results)] = ens[1]
                      /\ Len(m) = 3
                      /\ \A i \in 1..3 : \E k \in 1..Len(cs) : cs[k].name = m[i]
                      /\ \A i, j \in 1..3 : i < j => before(pos(m[i]), pos(m[j]))
                      /\ \A k \in 1..Len(cs) :
                            (\A i \in 1..3 : m[i] # cs[k].name) => before(pos(m[3]), k)
                      /\ self_best_model =
                            (IF ens[1].test_f1 > ProvisionalBest.test_f1
                             THEN "Ensemble" ELSE ProvisionalBest.name)

\* C4: a load that finds one of the three units missing or unreadable
\* reports failure and leaves the analyzer's fields exactly as they were
\* before the call: no mix of loaded and previous components is installed.
C4_PartialBundleRejected ==
    load_result = "False" => loader = loader_before

\* C5: with saves running beside loads, or interrupted between their
\* writes, every load that succeeds holds a model, a scaler and metadata
\* written by the same save: all of the previous artifact or all of the
\* next one.
C5_AtomicBundleSwap ==
    load_result = "True" =>
        /\ loader.scaler = loader.best_model
        /\ loader.feature_columns = loader.best_model
        /\ loader.label_encoders = loader.best_model
        /\ loader.original_network_data = loader.best_model
        /\ loader.feature_selector = loader.best_model

\* C3: predict_with_confidence runs the Normalizer, the Feature Engineer,
\* the Cleaner, the persisted Scaler and the persisted Selector, in this
\* order, on the input rows and only then invokes the model: the model is
\* never invoked on rows that skipped one of these stages.
C3_ChainBeforeModel ==
    pred_pc = "predicted" => invoked_on.stages = Chain

\* C6: after feature_selection with a selecting method, self.feature_columns
\* (which save_model_and_scaler persists) holds exactly the selected columns
\* in matrix order, and the persisted list equals the columns of the matrix
\* given to the model.
C6_FeatureColumnsAreSelected ==
    (sel_pc \in {"selected", "trained", "saved"} /\ sel_method \in SelectingMethods) =>
        /\ sel_self.feature_columns = X_train_cols
        /\ saved.written => saved.metadata.feature_columns = saved.model.columns

\* C6, amended: after feature_selection with a selecting method on the
\* matrices of the pipeline, self.feature_columns still lists the N columns
\* the matrices had; the fitted selector is kept in self.feature_selector,
\* its mask keeps min(k, N) columns and was applied to the training and to
\* the test matrix alike; save_model_and_scaler persists the N-column list
\* and the selector, and the columns of the matrix given to the model are
\* the persisted list filtered by the persisted selector's mask.
C6_SelectorMaskRecorded ==
    (sel_pc \in {"selected", "trained", "saved"} /\ sel_method \in SelectingMethods) =>
        LET columns == sel_self.feature_columns
            selector == sel_self.feature_selector
        IN  /\ \E n \in 1..MaxFeatures : columns = SubSeq(FeatureNames, 1, n)
            /\ selector.fitted
            /\ Len(selector.support) = Len(columns)
            /\ Cardinality({i \in 1..Len(columns) : selector.support[i]})
                  = Min(sel_k, Len(columns))
            /\ X_train_cols = apply_support(columns, selector.support)
            /\ X_test_cols = X_train_cols
            /\ Len(X_train_cols) = Min(sel_k, Len(columns))
            /\ sel_pc = "saved" =>
                  /\ saved.written
                  /\ saved.metadata.feature_columns = columns
                  /\ saved.metadata.feature_selector = selector
                  /\ saved.model.columns =
                        apply_support(saved.metadata.feature_columns,
                                      saved.metadata.feature_selector.support)

\* C6 witness: two of three columns selected, the model fit on them, the
\* bundle saved
C6_Witness ==
    /\ sel_pc = "saved"
    /\ sel_method = "mutual_info"
    /\ sel_k = 2
    /\ Len(sel_self.feature_columns) = 3
    /\ saved.written
    /\ saved.model.columns = <<"flow_duration", "fwd_bwd_ratio">>

\* the rows of an index in ascending order
InOrder(index) ==
    [k \in 1..Cardinality(index) |->
        CHOOSE r \in index : Cardinality({q \in index : q < r}) = k - 1]

\* the values column  j  of the matrix before clipping has in the rows  index
UnclippedValues(j, index) ==
    [k \in 1..Cardinality(index) |-> X_unclipped.at[InOrder(index)[k]][j]]

\* C2: the outlier bounds [Q1 - 3*IQR, Q3 + 3*IQR] of every column are the
\* ones computed from the rows of the training split alone, and every cleaned
\* value of the training and of the test matrix lies inside those
\* training-split bounds.  (Stated for the columns whose values are all
\* finite before clipping, where the bounds are numbers.)
C2_BoundsFromTrainingSplit ==
    prep_pc = "returned" =>
        \A j \in 1..Len(prep_X_train.columns) :
            (\A r \in X_unclipped.index : is_finite(X_unclipped.at[r][j])) =>
                LET train_bounds == clip_bounds(UnclippedValues(j, prep_X_train.index))
                IN  /\ bounds_used.bounds[j] = train_bounds
                    /\ \A r \in prep_X_train.index :
                          /\ f_le(train_bounds.lower, prep_X_train.at[r][j])
                          /\ f_le(prep_X_train.at[r][j], train_bounds.upper)
                    /\ \A r \in prep_X_test.index :
                          /\ f_le(train_bounds.lower, prep_X_test.at[r][j])
                          /\ f_le(prep_X_test.at[r][j], train_bounds.upper)

\* C11: every value of the X_train and X_test returned by
\* preprocess_unified_data is finite (no NaN, no +Inf, no -Inf), for every
\* input table, including columns that hold missing values, infinite values
\* or only missing and infinite values.
C11_FiniteFeatureMatrix ==
    prep_pc = "returned" =>
        /\ \A r \in prep_X_train.index : \A j \in 1..Len(prep_X_train.columns) :
               is_finite(prep_X_train.at[r][j])
        /\ \A r \in prep_X_test.index : \A j \in 1..Len(prep_X_test.columns) :
               is_finite(prep_X_test.at[r][j])

\* the members of a sequence
Range(seq) == {seq[i] : i \in 1..Len(seq)}

\* C12: none of the network identifier columns kept in the side table
\* original_network_data (src_ip, dst_ip, protocol, src_port, dst_port) is a
\* column of the feature matrix returned by preprocess_unified_data or a
\* member of self.feature_columns, whatever the column's data type.
C12_SideTableIsolation ==
    prep_pc = "returned" =>
        \A id \in {names.src_ip, names.dst_ip, names.protocol,
                   names.src_port, names.dst_port} :
            /\ id \notin Range(prep_X_train.columns)
            /\ id \notin Range(prep_X_test.columns)
            /\ id \notin Range(feature_columns.columns)

\* C13: preprocess_unified_data does not raise when a stratified 80/20 split
\* is infeasible (a class with a single sample, say): it substitutes an
\* unstratified split, and on the stratified and on the fallback path alike
\* every row of the cleaned dataset ends up in exactly one of the train and
\* the test set.
C13_SplitFallback ==
    /\ prep_pc # "raised"
    /\ prep_pc = "returned" =>
          /\ prep_X_train.index \cup prep_X_test.index = X_unclipped.index
          /\ prep_X_train.index \cap prep_X_test.index = {}
          /\ prep_y_train.index = prep_X_train.index
          /\ prep_y_test.index = prep_X_test.index

\* C14: label standardization (strip and upper-case the token, then apply
\* the fixed label_mapping table, unmapped tokens passing through) is
\* idempotent: standardizing an already standardized label returns that same
\* label, also for the mixed-case outputs 'NetBIOS', 'Portmap' and 'UDPLag'.
C14_StandardizeIdempotent ==
    \A i \in 2..Len(label_std) : label_std[i] = label_std[i - 1]

\* a lower-case netbios cell inside blanks became 'NetBIOS' and was
\* standardized once more
C14_Witness ==
    /\ label_raw = <<" ","N","e","t","b","i","o","s"," "," ">>
    /\ Len(label_std) = 2
    /\ label_std[1] = <<"N","e","t","B","I","O","S">>

\* the keys of the label_mapping table
label_mapping_keys == {label_mapping[i][1] : i \in 1..Len(label_mapping)}

\* C15: every raw label is mapped, after whitespace and case normalization,
\* to the value the fixed collapsing table assigns to it (the labels normal,
\* DDoS and ddos become BENIGN, UDP and UDP), and a token the table does not
\* contain is kept in its normalized raw form, neither rejected nor turned
\* into a missing value.
C15_LabelsCollapsed ==
    Len(label_std) >= 1 =>
        LET normalized == str_upper(str_strip(label_raw))
        IN  /\ normalized \in label_mapping_keys
                => \E i \in 1..Len(label_mapping) :
                       label_mapping[i] = <<normalized, label_std[1]>>
            /\ normalized \notin label_mapping_keys => label_std[1] = normalized
            /\ label_raw = <<"n","o","r","m","a","l">>
                => label_std[1] = <<"B","E","N","I","G","N">>
            /\ label_raw \in {<<"D","D","o","S">>, <<"d","d","o","s">>}
                => label_std[1] = <<"U","D","P">>

\* a cell the table lacks, read with a leading blank, was standardized
C15_Witness ==
    /\ label_raw = <<" ","p","r","o","b","e">>
    /\ Len(label_std) >= 1
    /\ label_std[1] = <<"P","R","O","B","E">>

\* the columns of a header row that no entry of the table and no substring
\* rule matches, once trimmed, underscored and lower-cased
Unmatched(col) ==
    /\ col \notin column_mappings_keys
    /\ ~(/\ \/ str_contains(<<"s","o","u","r","c","e">>, col)
            \/ str_contains(<<"d","e","s","t","i","n","a","t","i","o","n">>, col)
         /\ \/ str_contains(<<"i","p">>, col)
            \/ str_contains(<<"p","o","r","t">>, col))
    /\ col \notin {<<"c","l","a","s","s">>, <<"a","t","t","a","c","k">>, <<"t","y","p","e">>}

\* C16: normalize_column_names is stable: re-normalizing a canonical name
\* returns it unchanged (so normalizing the same raw name twice yields the
\* same canonical name), and a column matched by no table entry and no
\* substring rule keeps its trimmed, lower-cased, underscored name.
C16_SchemaStability ==
    [][/\ norm_pc = "normalized" => df_columns' = df_columns
       /\ norm_pc = "raw" =>
             \A i \in 1..Len(raw_columns) :
                 LET col == str_lower(str_replace_space(str_strip(raw_columns[i])))
                 IN  Unmatched(col) => df_columns'[i] = col]_vars

\* the header 'foo bar', which nothing matches, was normalized twice
C16_Witness ==
    /\ norm_pc = "renormalized"
    /\ raw_columns = << <<"f","o","o"," ","b","a","r">> >>
    /\ df_columns = << <<"f","o","o","_","b","a","r">> >>

\* a column that holds one finite value in every row once lines 332-337
\* have imputed it
ConstantAfterImputation(values) ==
    LET imputed == fill_missing(values)
    IN  \A r \in 1..Len(imputed) : is_finite(imputed[r]) /\ imputed[r] = imputed[1]

\* C17: every feature column that holds a single constant value (zero
\* variance) after imputation is removed from the feature matrix by
\* preprocess_unified_data and is absent from self.feature_columns and from
\* the feature-column list that save_model_and_scaler persists, for every
\* dataset size.
C17_ConstantColumnsDropped ==
    prep_pc \in {"returned", "raised"} =>
        \A i \in 1..Len(numeric_features(prep_df)) :
            LET c == numeric_features(prep_df)[i]
                self == [new_analyzer EXCEPT !.feature_columns = feature_columns.columns]
            IN  ConstantAfterImputation(c.values) =>
                    /\ c.name \notin Range(feature_columns.columns)
                    /\ c.name \notin Range(metadata_of(self).feature_columns)
                    /\ prep_pc = "returned" =>
                          /\ c.name \notin Range(prep_X_train.columns)
                          /\ c.name \notin Range(prep_X_test.columns)

\* the columns create_engineered_features derives, each with the columns
\* its block tests for
Derivations ==
    LET counts == {names.tot_fwd_pkts, names.tot_bwd_pkts}
        ports == {names.src_port, names.dst_port}
    IN  << <<names.fwd_bwd_ratio, counts>>, <<names.bwd_fwd_ratio, counts>>,
           <<names.avg_fwd_pkt_size, {names.totlen_fwd_pkts, names.tot_fwd_pkts}>>,
           <<names.avg_bwd_pkt_size, {names.totlen_bwd_pkts, names.tot_bwd_pkts}>>,
           <<names.flow_efficiency, {names.flow_duration, names.flow_pkts_s}>>,
           <<names.is_tcp, {names.protocol}>>, <<names.is_udp, {names.protocol}>>,
           <<names.is_icmp, {names.protocol}>>,
           <<names.src_is_wellknown, ports>>, <<names.dst_is_wellknown, ports>>,
           <<names.src_is_common, ports>>, <<names.dst_is_common, ports>> >>

\* C18: create_engineered_features is strictly additive and presence-guarded:
\* for every selection of canonical columns in the input it returns, every
\* input column is still present with unchanged values in the output, every
\* other output column is a derived one, and a derived column is added only
\* when all the source columns of its derivation are present in the input
\* (total_flags and flag_diversity, derived from the flag columns that are
\* available: only when at least two of them are).
C18_AdditiveAndGuarded ==
    eng_pc = "returned" =>
        LET input == Range(columns_of(eng_input))
            output == Range(columns_of(eng_df))
            flags == {names.total_flags, names.flag_diversity}
        IN  /\ \A i \in 1..Len(eng_input) : eng_df[i] = eng_input[i]
            /\ Len(eng_df) = Cardinality(output)
            /\ output \ input \subseteq flags \cup {Derivations[d][1] : d \in 1..Len(Derivations)}
            /\ \A d \in 1..Len(Derivations) :
                   Derivations[d][1] \in output => Derivations[d][2] \subseteq input
            /\ output \cap flags # {} => Cardinality(input \cap Range(flag_cols)) >= 2

\* a frame with the protocol and two flag columns but a single port column
\* came back with the protocol indicators and the flag features and without
\* the port features
C18_Witness ==
    /\ eng_pc = "returned"
    /\ Range(columns_of(eng_input)) =
           {names.protocol, names.syn_flag_cnt, names.ack_flag_cnt, names.src_port,
            target_column}
    /\ Range(columns_of(eng_df)) \ Range(columns_of(eng_input)) =
           {names.is_tcp, names.is_udp, names.is_icmp, names.total_flags,
            names.flag_diversity}

====
